---- MODULE Spec2Model ----
(***************************************************************************)
(* Model of the entity-fusion and masking engine of the GDPR anonymizer    *)
(* (src/comprehensive_gdpr_anonymizer.py): anonymize_text, the span merger *)
(* _remove_overlapping_entities, and the assessors _assess_privacy_risk    *)
(* and _check_gdpr_compliance.                                             *)
(*                                                                         *)
(* Strings of the program are sequences of one-character strings, so that  *)
(* slicing, concatenation, repetition and upper() are computed.            *)
(*                                                                         *)
(* Seven specifications:                                                   *)
(*   Spec       one call of anonymize_text, step by step;                  *)
(*   SpecMerge  one call of _remove_overlapping_entities on a list;        *)
(*   SpecRisk   one call of the two assessors on a masked-entity list;     *)
(*   SpecDefect one call of anonymize_text whose producers report spans    *)
(*              that need not lie in the text;                             *)
(*   SpecCalls  two calls of anonymize_text on one instance, interleaved;  *)
(*   SpecAsterisk  one call of anonymize_text in asterisk mode;            *)
(*   SpecService   the process of docker_api.py or startup.py serving two  *)
(*              requests whose handlers interleave.                        *)
(***************************************************************************)
EXTENDS Integers, Sequences, FiniteSets, TLC

VARIABLES
    pc,                     \* position of the call
    text,                   \* argument text
    mask_char,              \* argument mask_char
    preserve_types,         \* argument preserve_types (a list of types)
    use_descriptive_masks,  \* argument use_descriptive_masks
    all_entities,           \* local all_entities (sorted in place by the merger)
    filtered_entities,      \* local filtered_entities
    entities_to_mask,       \* local entities_to_mask
    masked_text,            \* local masked_text
    masked_entities,        \* local masked_entities
    result                  \* <<>> until the call returns, then <<the returned dict>>

\* The service around the engine (docker_api.py, startup.py).
VARIABLES
    entry,                  \* the script the process was started with
    main_pc,                \* position of the main thread of the process
    anonymizer,             \* the global docker_api.anonymizer
    constructed,            \* constructor calls completed so far
    classla_ok,             \* whether loading the CLASSLA models succeeds
    req                     \* the requests: position, body, locals, response

serviceVars == <<entry, main_pc, anonymizer, constructed, classla_ok, req>>

vars == <<pc, text, mask_char, preserve_types, use_descriptive_masks, all_entities,
          filtered_entities, entities_to_mask, masked_text, masked_entities, result,
          entry, main_pc, anonymizer, constructed, classla_ok, req>>

\* The engine called directly on an instance, no service process around it.
NoService ==
    /\ entry = "none"
    /\ main_pc = "none"
    /\ anonymizer = 1
    /\ constructed = 1
    /\ classla_ok = TRUE
    /\ req = <<>>

-----------------------------------------------------------------------------
(* Bounds of the model.                                                    *)

\* Length of the input text of a call; spans range over 0..TextLen.
TextLen == 4
\* Longest combined entity list of one anonymize_text call.
MaxEntities == 2
\* Longest list handed to the merger alone.
MaxMergeEntities == 3
\* Longest masked-entity list handed to the assessors alone.
MaxRiskEntities == 3

-----------------------------------------------------------------------------
(* Strings.                                                                *)

Str_PER          == <<"P","E","R">>
Str_LOC          == <<"L","O","C">>
Str_ORG          == <<"O","R","G">>
Str_MISC         == <<"M","I","S","C">>
Str_EMAIL        == <<"E","M","A","I","L">>
Str_PHONE        == <<"P","H","O","N","E">>
Str_CREDIT_CARD  == <<"C","R","E","D","I","T","_","C","A","R","D">>
Str_IP_ADDRESS   == <<"I","P","_","A","D","D","R","E","S","S">>
Str_DATE         == <<"D","A","T","E">>
Str_URL          == <<"U","R","L">>
Str_IBAN         == <<"I","B","A","N">>
Str_PERSONAL_ID  == <<"P","E","R","S","O","N","A","L","_","I","D">>
Str_TAX_NUMBER   == <<"T","A","X","_","N","U","M","B","E","R">>
Str_BANK_ACCOUNT == <<"B","A","N","K","_","A","C","C","O","U","N","T">>
Str_ADDRESS      == <<"A","D","D","R","E","S","S">>

LowerLetters == <<"a","b","c","d","e","f","g","h","i","j","k","l","m",
                  "n","o","p","q","r","s","t","u","v","w","x","y","z">>
UpperLetters == <<"A","B","C","D","E","F","G","H","I","J","K","L","M",
                  "N","O","P","Q","R","S","T","U","V","W","X","Y","Z">>

\* str.upper() on one character: a lower-case letter becomes its capital,
\* every other character is left alone.
UpperChar(c) ==
    IF \E k \in 1..Len(LowerLetters) : LowerLetters[k] = c
    THEN UpperLetters[CHOOSE k \in 1..Len(LowerLetters) : LowerLetters[k] = c]
    ELSE c

\* str.upper()
Upper(s) == [k \in 1..Len(s) |-> UpperChar(s[k])]

\* s[a:b] for 0 <= a <= b <= len(s)
Slice(s, a, b) == SubSeq(s, a + 1, b)

\* s * n
RECURSIVE Repeat(_, _)
Repeat(s, n) == IF n <= 0 THEN <<>> ELSE s \o Repeat(s, n - 1)

-----------------------------------------------------------------------------
(* The overlap test and the two sorts.                                     *)

\* Overlaps, testing only whether the candidate starts inside the accepted span
Overlaps_StartInside(entity, filtered_entity) ==
    /\ entity.start < filtered_entity.end
    /\ entity.start >= filtered_entity.start

\* Overlaps, not counting an entity of the very same span
Overlaps_ExceptSameSpan(entity, filtered_entity) ==
    /\ entity.start < filtered_entity.end
    /\ entity.end > filtered_entity.start
    /\ ~(entity.start = filtered_entity.start /\ entity.end = filtered_entity.end)

\* Overlaps counting touching endpoints as overlap
Overlaps_Touching(entity, filtered_entity) ==
    /\ entity.start <= filtered_entity.end
    /\ entity.end >= filtered_entity.start

\* the condition of the inner loop of _remove_overlapping_entities
Overlaps(entity, filtered_entity) ==
    /\ entity.start < filtered_entity.end
    /\ entity.end > filtered_entity.start

\* KeyGreater with the key x['end'] - x['start'] alone
KeyGreater_LengthOnly(a, b) == (a.end - a.start) > (b.end - b.start)

\* KeyGreater with the key (x['end'] - x['start'], x['start'])
KeyGreater_LaterFirst(a, b) ==
    \/ (a.end - a.start) > (b.end - b.start)
    \/ /\ (a.end - a.start) = (b.end - b.start)
       /\ a.start > b.start

\* the sort key (x['end'] - x['start'], -x['start']), compared as Python
\* compares tuples: KeyGreater(a, b) iff key(a) > key(b)
KeyGreater(a, b) ==
    \/ (a.end - a.start) > (b.end - b.start)
    \/ /\ (a.end - a.start) = (b.end - b.start)
       /\ (0 - a.start) > (0 - b.start)

\* InsertByKey as an ascending sort reversed does it: e in front of the
\* elements whose key equals e's
InsertByKey_BeforeEqual(sorted, e) ==
    LET k == Cardinality({j \in 1..Len(sorted) : KeyGreater(sorted[j], e)})
    IN  SubSeq(sorted, 1, k) \o <<e>> \o SubSeq(sorted, k + 1, Len(sorted))

\* list.sort(key=..., reverse=True) is stable: elements with equal keys keep
\* their order.  One insertion of e behind every element whose key is >= e's.
InsertByKey(sorted, e) ==
    LET k == Cardinality({j \in 1..Len(sorted) : ~KeyGreater(e, sorted[j])})
    IN  SubSeq(sorted, 1, k) \o <<e>> \o SubSeq(sorted, k + 1, Len(sorted))

\* SortByLength without the sort
SortByLength_Unsorted(entities) == entities

RECURSIVE SortByLength(_)
SortByLength(entities) ==
    IF entities = <<>> THEN <<>>
    ELSE InsertByKey(SortByLength(SubSeq(entities, 1, Len(entities) - 1)),
                     entities[Len(entities)])

\* the sort key x['start'] of the redaction pass
StartGreater(a, b) == a.start > b.start

InsertByStart(sorted, e) ==
    LET k == Cardinality({j \in 1..Len(sorted) : ~StartGreater(e, sorted[j])})
    IN  SubSeq(sorted, 1, k) \o <<e>> \o SubSeq(sorted, k + 1, Len(sorted))

\* SortByStart without reverse=True: ascending by start, stable
RECURSIVE SortByStart_Ascending(_)
SortByStart_Ascending(entities) ==
    IF entities = <<>> THEN <<>>
    ELSE LET sorted == SortByStart_Ascending(SubSeq(entities, 1, Len(entities) - 1))
             e == entities[Len(entities)]
             k == Cardinality({j \in 1..Len(sorted) : sorted[j].start <= e.start})
         IN  SubSeq(sorted, 1, k) \o <<e>> \o SubSeq(sorted, k + 1, Len(sorted))

RECURSIVE SortByStart(_)
SortByStart(entities) ==
    IF entities = <<>> THEN <<>>
    ELSE InsertByStart(SortByStart(SubSeq(entities, 1, Len(entities) - 1)),
                       entities[Len(entities)])

-----------------------------------------------------------------------------
(* _remove_overlapping_entities                                            *)

\* FilterLoop testing the candidate against the last accepted entity only
RECURSIVE FilterLoop_LastOnly(_, _, _)
FilterLoop_LastOnly(sorted, k, filtered) ==
    IF k > Len(sorted) THEN filtered
    ELSE LET entity == sorted[k]
             overlaps == /\ filtered # <<>>
                         /\ Overlaps(entity, filtered[Len(filtered)])
         IN  FilterLoop_LastOnly(sorted, k + 1,
                                 IF overlaps THEN filtered ELSE Append(filtered, entity))

\* the loop over the sorted list: entity k is appended to filtered unless it
\* overlaps an entity already in filtered
RECURSIVE FilterLoop(_, _, _)
FilterLoop(sorted, k, filtered) ==
    IF k > Len(sorted) THEN filtered
    ELSE LET entity == sorted[k]
             overlaps == \E j \in 1..Len(filtered) : Overlaps(entity, filtered[j])
         IN  FilterLoop(sorted, k + 1,
                        IF overlaps THEN filtered ELSE Append(filtered, entity))

\* the value returned
RemoveOverlapping(entities) ==
    IF entities = <<>> THEN entities
    ELSE FilterLoop(SortByLength(entities), 1, <<>>)

-----------------------------------------------------------------------------
(* _assess_privacy_risk and _check_gdpr_compliance                         *)

InList(x, list) == \E k \in 1..Len(list) : list[k] = x

\* entity_types = [entity['type'] for entity in masked_entities]
EntityTypes(entities) == [k \in 1..Len(entities) |-> entities[k].type]

high_risk   == <<Str_PERSONAL_ID, Str_CREDIT_CARD, Str_EMAIL, Str_IBAN,
                 Str_TAX_NUMBER, Str_BANK_ACCOUNT>>
medium_risk == <<Str_PER, Str_PHONE, Str_IP_ADDRESS>>
low_risk    == <<Str_LOC, Str_ORG, Str_URL, Str_DATE, Str_ADDRESS>>

\* sum(1 for t in entity_types if t in list)
RECURSIVE CountIn(_, _)
CountIn(entity_types, list) ==
    IF entity_types = <<>> THEN 0
    ELSE (IF InList(Head(entity_types), list) THEN 1 ELSE 0)
         + CountIn(Tail(entity_types), list)

\* AssessPrivacyRisk with medium_count == 2 for 'medium'
AssessPrivacyRisk_ExactlyTwoMedium(entities) ==
    IF entities = <<>> THEN "low"
    ELSE LET entity_types == EntityTypes(entities)
             high_count   == CountIn(entity_types, high_risk)
             medium_count == CountIn(entity_types, medium_risk)
         IN  IF high_count > 0 THEN "high"
             ELSE IF medium_count = 2 THEN "medium"
             ELSE "low"

\* AssessPrivacyRisk with medium_count >= 1 for 'medium'
AssessPrivacyRisk_OneMedium(entities) ==
    IF entities = <<>> THEN "low"
    ELSE LET entity_types == EntityTypes(entities)
             high_count   == CountIn(entity_types, high_risk)
             medium_count == CountIn(entity_types, medium_risk)
         IN  IF high_count > 0 THEN "high"
             ELSE IF medium_count >= 1 THEN "medium"
             ELSE "low"

AssessPrivacyRisk(entities) ==
    IF entities = <<>> THEN "low"
    ELSE LET entity_types == EntityTypes(entities)
             high_count   == CountIn(entity_types, high_risk)
             medium_count == CountIn(entity_types, medium_risk)
         IN  IF high_count > 0 THEN "high"
             ELSE IF medium_count > 1 THEN "medium"
             ELSE "low"

\* the keys of the dict personal_data_types, in the order of the source
personal_data_keys ==
    <<Str_PER, Str_EMAIL, Str_PHONE, Str_PERSONAL_ID, Str_CREDIT_CARD, Str_IBAN,
      Str_TAX_NUMBER, Str_BANK_ACCOUNT, Str_IP_ADDRESS, Str_DATE, Str_LOC,
      Str_ORG, Str_URL, Str_ADDRESS>>

\* personal_data_types[entity_type], for a key of the dict
personal_data_types(entity_type) ==
    CASE entity_type = Str_PER          -> "Personal data (names, identifiers)"
      [] entity_type = Str_EMAIL        -> "Personal data (contact information)"
      [] entity_type = Str_PHONE        -> "Personal data (contact information)"
      [] entity_type = Str_PERSONAL_ID  -> "Special category data (national ID)"
      [] entity_type = Str_CREDIT_CARD  -> "Financial data"
      [] entity_type = Str_IBAN         -> "Financial data (bank account)"
      [] entity_type = Str_TAX_NUMBER   -> "Financial data (tax information)"
      [] entity_type = Str_BANK_ACCOUNT -> "Financial data (bank account)"
      [] entity_type = Str_IP_ADDRESS   -> "Personal data (online identifier)"
      [] entity_type = Str_DATE         -> "Personal data (birth dates, etc.)"
      [] entity_type = Str_LOC          -> "Personal data (location)"
      [] entity_type = Str_ORG          -> "Personal data (affiliation)"
      [] entity_type = Str_URL          -> "Personal data (online activity)"
      [] entity_type = Str_ADDRESS      -> "Personal data (location)"

\* special_category_types taken to be the high-risk list
special_category_types_AsHighRisk == high_risk

special_category_types ==
    <<Str_PERSONAL_ID, Str_CREDIT_CARD, Str_IBAN, Str_TAX_NUMBER, Str_BANK_ACCOUNT>>

\* the loop of _check_gdpr_compliance over entity_types, from a report
RECURSIVE ComplianceLoop(_, _)
ComplianceLoop(entity_types, report) ==
    IF entity_types = <<>> THEN report
    ELSE LET entity_type == Head(entity_types)
             known   == InList(entity_type, personal_data_keys)
             special == known /\ InList(entity_type, special_category_types)
             detected1 == IF known
                          THEN Append(report.personal_data_detected,
                                      personal_data_types(entity_type))
                          ELSE report.personal_data_detected
             special1  == IF special
                          THEN Append(report.special_categories,
                                      personal_data_types(entity_type))
                          ELSE report.special_categories
         IN  ComplianceLoop(Tail(entity_types),
                            [report EXCEPT !.personal_data_detected = detected1,
                                           !.special_categories = special1])

\* CheckGdprCompliance that appends the legal-basis recommendation always
CheckGdprCompliance_AlwaysRecommends(entities) ==
    [ComplianceLoop(EntityTypes(entities),
                    [gdpr_article_4_compliant |-> TRUE,
                     personal_data_detected   |-> <<>>,
                     special_categories       |-> <<>>,
                     recommendations          |-> <<>>])
        EXCEPT !.recommendations =
                  <<"Ensure proper legal basis for processing personal data">>]

CheckGdprCompliance(entities) ==
    LET looped == ComplianceLoop(EntityTypes(entities),
                      [gdpr_article_4_compliant |-> TRUE,
                       personal_data_detected   |-> <<>>,
                       special_categories       |-> <<>>,
                       recommendations          |-> <<>>])
        rec1 == IF looped.personal_data_detected # <<>>
                THEN <<"Ensure proper legal basis for processing personal data">>
                ELSE <<>>
        rec2 == IF looped.special_categories # <<>>
                THEN <<"Special category data detected - additional safeguards required">>
                ELSE <<>>
    IN  [looped EXCEPT !.recommendations = rec1 \o rec2]

-----------------------------------------------------------------------------
(* Inputs.                                                                 *)

\* the texts of a call, TextLen characters each: letters that differ from
\* their neighbours, and a text that holds the default mask character
PlainText == [k \in 1..TextLen |-> LowerLetters[((k - 1) % Len(LowerLetters)) + 1]]
StarText  == [k \in 1..TextLen |-> IF k % 2 = 0 THEN "*" ELSE "a"]
Texts == {PlainText, StarText}

\* mask_char: the default '*' and a caller's two-character string
MaskChars == {<<"*">>, <<"#", "#">>}

\* preserve_types of the caller
PreserveLists == {<<>>, <<Str_LOC>>, <<Str_PHONE, Str_EMAIL>>}

\* What a producer puts into an entity besides the span, for every type the
\* producers emit.  rank is the place of the producer (and of the pattern
\* group inside it) in the combined list ner_entities + presidio_entities +
\* regional_entities; it is not a field of the entity.
Kind(type, method, confidence, rank) ==
    [type |-> type, detection_method |-> method, confidence |-> confidence, rank |-> rank]

AllKinds ==
    { Kind(Str_PER,          "classla_ner",         "high",   1),
      Kind(Str_LOC,          "classla_ner",         "high",   1),
      Kind(Str_ORG,          "classla_ner",         "high",   1),
      Kind(Str_MISC,         "classla_ner",         "high",   1),
      Kind(Str_CREDIT_CARD,  "presidio_pattern",    "high",   2),
      Kind(Str_EMAIL,        "presidio_pattern",    "high",   3),
      Kind(Str_PHONE,        "google_phonenumbers", "high",   4),
      Kind(Str_IP_ADDRESS,   "presidio_pattern",    "high",   5),
      Kind(Str_DATE,         "presidio_pattern",    "medium", 6),
      Kind(Str_URL,          "presidio_pattern",    "high",   7),
      Kind(Str_IBAN,         "presidio_pattern",    "high",   8),
      Kind(Str_PERSONAL_ID,  "regional_pattern",    "high",   9),
      Kind(Str_TAX_NUMBER,   "regional_pattern",    "high",   10),
      Kind(Str_BANK_ACCOUNT, "regional_pattern",    "high",   11),
      Kind(Str_ADDRESS,      "regional_pattern",    "medium", 12) }

KindOf(type) == CHOOSE kind \in AllKinds : kind.type = type

\* the kinds of the producers' matches in one anonymize_text call
EntityKinds ==
    {KindOf(Str_LOC), KindOf(Str_EMAIL), KindOf(Str_PHONE), KindOf(Str_TAX_NUMBER)}

\* the kinds of the entities handed to the merger alone
MergeKinds == {KindOf(Str_LOC), KindOf(Str_EMAIL)}

Spans == {sp \in (0..TextLen) \X (0..TextLen) : sp[1] < sp[2]}

\* the dict a producer appends for a match of kind at txt[sp[1]:sp[2]]
MakeEntity(txt, sp, kind) ==
    [text             |-> Slice(txt, sp[1], sp[2]),
     type             |-> kind.type,
     start            |-> sp[1],
     end              |-> sp[2],
     detection_method |-> kind.detection_method,
     confidence       |-> kind.confidence]

\* choice is a list of (span, kind) pairs in the order of the producers
ProducerOrdered(choice) ==
    \A k \in 1..(Len(choice) - 1) : choice[k][2].rank <= choice[k + 1][2].rank

\* entities is a combined list of at most n entities that the three producers
\* can give for txt: any spans, the kinds in the order of the producers
IsCombinedList(entities, txt, kinds, n) ==
    \E m \in 0..n : \E choice \in [1..m -> Spans \X kinds] :
        /\ ProducerOrdered(choice)
        /\ entities = [k \in 1..m |-> MakeEntity(txt, choice[k][1], choice[k][2])]

-----------------------------------------------------------------------------
(* anonymize_text                                                          *)

\* s[:n] and s[n:] as Python slices them
PyIndex(s, n) ==
    IF n < 0 THEN (IF n + Len(s) < 0 THEN 0 ELSE n + Len(s))
    ELSE IF n > Len(s) THEN Len(s) ELSE n
Prefix(s, n) == SubSeq(s, 1, PyIndex(s, n))
Suffix(s, n) == SubSeq(s, PyIndex(s, n) + 1, Len(s))

MaskedPrefix == <<"<","M","A","S","K","E","D","_">>

\* MaskOf with the mask character repeated once for each character but the last
MaskOf_OneShort(entity, descriptive, mc) ==
    IF descriptive
    THEN MaskedPrefix \o Upper(entity.type) \o <<">">>
    ELSE Repeat(mc, entity.end - entity.start - 1)

\* the mask of one entity
MaskOf(entity, descriptive, mc) ==
    IF descriptive
    THEN MaskedPrefix \o Upper(entity.type) \o <<">">>
    ELSE Repeat(mc, entity.end - entity.start)

\* Splice that inserts the mask and leaves the span in place
Splice_KeepsSpan(txt, entity, mask) ==
    Prefix(txt, entity.start) \o mask \o Suffix(txt, entity.start)

\* masked_text[:start] + mask + masked_text[end:]
Splice(txt, entity, mask) ==
    Prefix(txt, entity.start) \o mask \o Suffix(txt, entity.end)

\* MaskedRecord with the position of the mask in the masked text
MaskedRecord_MaskPosition(entity, mask) ==
    [original         |-> entity.text,
     type             |-> entity.type,
     mask             |-> mask,
     position         |-> <<entity.start, entity.start + Len(mask)>>,
     detection_method |-> entity.detection_method,
     confidence       |-> entity.confidence]

\* the dict appended to masked_entities
MaskedRecord(entity, mask) ==
    [original         |-> entity.text,
     type             |-> entity.type,
     mask             |-> mask,
     position         |-> <<entity.start, entity.end>>,
     detection_method |-> entity.detection_method,
     confidence       |-> entity.confidence]

\* EntitiesToMask without the filter
EntitiesToMask_NoFilter(filtered, preserve) == SortByStart(filtered)

\* EntitiesToMask with the test inverted: only the preserved types are masked
EntitiesToMask_OnlyPreserved(filtered, preserve) ==
    SortByStart(SelectSeq(filtered, LAMBDA entity : InList(entity.type, preserve)))

\* entities_to_mask: the preserved types filtered out, then sorted by start,
\* descending
EntitiesToMask(filtered, preserve) ==
    SortByStart(SelectSeq(filtered, LAMBDA entity : ~InList(entity.type, preserve)))

\* CountMethod telling only whether the method detected anything
CountMethod_Present(entities, method) ==
    IF \E k \in 1..Len(entities) : entities[k].detection_method = method THEN 1 ELSE 0

CountMethod(entities, method) ==
    Len(SelectSeq(entities, LAMBDA e : e.detection_method = method))

\* the dict returned
ResultOf(txt, mtext, mentities) ==
    [original_text         |-> txt,
     anonymized_text       |-> mtext,
     masked_entities       |-> mentities,
     total_entities_masked |-> Len(mentities),
     privacy_risk          |-> AssessPrivacyRisk(mentities),
     gdpr_compliance       |-> CheckGdprCompliance(mentities),
     detection_methods     |->
        [classla_ner         |-> CountMethod(mentities, "classla_ner"),
         presidio_patterns   |-> CountMethod(mentities, "presidio_pattern"),
         google_phonenumbers |-> CountMethod(mentities, "google_phonenumbers"),
         regional_patterns   |-> CountMethod(mentities, "regional_pattern")]]

\* The call with its arguments, before the producers run.  mask_char is
\* ignored in descriptive mode and left at its default there.
Init ==
    /\ NoService
    /\ pc = "extract"
    /\ text \in Texts
    /\ use_descriptive_masks \in BOOLEAN
    /\ mask_char \in MaskChars
    /\ use_descriptive_masks => mask_char = <<"*">>
    /\ preserve_types \in PreserveLists
    /\ all_entities = <<>>
    /\ filtered_entities = <<>>
    /\ entities_to_mask = <<>>
    /\ masked_text = <<>>
    /\ masked_entities = <<>>
    /\ result = <<>>

\* The three producers run and their lists are concatenated.
Extract ==
    /\ pc = "extract"
    /\ IsCombinedList(all_entities', text, EntityKinds, MaxEntities)
    /\ pc' = "merge"
    /\ UNCHANGED serviceVars
    /\ UNCHANGED <<text, mask_char, preserve_types, use_descriptive_masks,
                   filtered_entities, entities_to_mask, masked_text,
                   masked_entities, result>>

\* filtered_entities = self._remove_overlapping_entities(all_entities); the
\* merger sorts its argument in place.
Merge ==
    /\ pc = "merge"
    /\ filtered_entities' = RemoveOverlapping(all_entities)
    /\ all_entities' = SortByLength(all_entities)
    /\ pc' = "filter"
    /\ UNCHANGED serviceVars
    /\ UNCHANGED <<text, mask_char, preserve_types, use_descriptive_masks,
                   entities_to_mask, masked_text, masked_entities, result>>

\* The preserved types are filtered out, the rest sorted, the loop set up.
FilterPreserved ==
    /\ pc = "filter"
    /\ entities_to_mask' = EntitiesToMask(filtered_entities, preserve_types)
    /\ masked_text' = text
    /\ masked_entities' = <<>>
    /\ pc' = "mask"
    /\ UNCHANGED serviceVars
    /\ UNCHANGED <<text, mask_char, preserve_types, use_descriptive_masks,
                   all_entities, filtered_entities, result>>

\* One iteration of the loop over entities_to_mask.
MaskEntity ==
    /\ pc = "mask"
    /\ Len(masked_entities) < Len(entities_to_mask)
    /\ LET entity == entities_to_mask[Len(masked_entities) + 1]
           mask   == MaskOf(entity, use_descriptive_masks, mask_char)
       IN  /\ masked_text' = Splice(masked_text, entity, mask)
           /\ masked_entities' = Append(masked_entities, MaskedRecord(entity, mask))
    /\ UNCHANGED serviceVars
    /\ UNCHANGED <<pc, text, mask_char, preserve_types, use_descriptive_masks,
                   all_entities, filtered_entities, entities_to_mask, result>>

\* The loop is over: the risk is assessed and the dict returned.
Return ==
    /\ pc = "mask"
    /\ Len(masked_entities) = Len(entities_to_mask)
    /\ result' = <<ResultOf(text, masked_text, masked_entities)>>
    /\ pc' = "done"
    /\ UNCHANGED serviceVars
    /\ UNCHANGED <<text, mask_char, preserve_types, use_descriptive_masks,
                   all_entities, filtered_entities, entities_to_mask,
                   masked_text, masked_entities>>

Next == Extract \/ Merge \/ FilterPreserved \/ MaskEntity \/ Return

Spec == Init /\ [][Next]_vars

-----------------------------------------------------------------------------
(* The merger alone: one call of _remove_overlapping_entities, as          *)
(* anonymize_text makes it, on every combined list of at most              *)
(* MaxMergeEntities entities.                                              *)

InitMerge ==
    /\ NoService
    /\ pc = "merge"
    /\ text = PlainText
    /\ use_descriptive_masks = FALSE
    /\ mask_char = <<"*">>
    /\ preserve_types = <<>>
    /\ IsCombinedList(all_entities, PlainText, MergeKinds, MaxMergeEntities)
    /\ filtered_entities = <<>>
    /\ entities_to_mask = <<>>
    /\ masked_text = <<>>
    /\ masked_entities = <<>>
    /\ result = <<>>

NextMerge == Merge

SpecMerge == InitMerge /\ [][NextMerge]_vars

-----------------------------------------------------------------------------
(* The assessors alone: the end of a call whose loop has masked, in        *)
(* asterisk mode, a list of at most MaxRiskEntities entities of any types. *)

RiskTypes == {kind.type : kind \in AllKinds}

\* the k-th of n entities masked, rightmost first, one character each
RiskEntity(types, k) ==
    MakeEntity(PlainText, <<Len(types) - k, Len(types) - k + 1>>, KindOf(types[k]))

InitRisk ==
    /\ NoService
    /\ pc = "mask"
    /\ text = PlainText
    /\ use_descriptive_masks = FALSE
    /\ mask_char = <<"*">>
    /\ preserve_types = <<>>
    /\ \E n \in 0..MaxRiskEntities : \E types \in [1..n -> RiskTypes] :
         /\ entities_to_mask = [k \in 1..n |-> RiskEntity(types, k)]
         /\ masked_entities =
              [k \in 1..n |-> MaskedRecord(RiskEntity(types, k), <<"*">>)]
         /\ masked_text = Repeat(<<"*">>, n) \o Suffix(PlainText, n)
         /\ filtered_entities = entities_to_mask
         /\ all_entities = entities_to_mask
    /\ result = <<>>

NextRisk == Return

SpecRisk == InitRisk /\ [][NextRisk]_vars

-----------------------------------------------------------------------------
(* Properties of the merger (SpecMerge).  In a state with pc = "filter"    *)
(* the call has returned: all_entities is the argument as the call left    *)
(* it, sorted, and filtered_entities is the list returned.                 *)

MergeReturned == pc = "filter"

SpanLen(e) == e.end - e.start

\* a and b have the same span
SameSpan(a, b) == a.start = b.start /\ a.end = b.end

\* an entity with the span of e is in the list returned
Kept(e) == \E k \in 1..Len(filtered_entities) : SameSpan(filtered_entities[k], e)

\* the ranges [start, end) of a and b have no position in common
Disjoint(a, b) == a.end <= b.start \/ a.start >= b.end

RECURSIVE SumLen(_)
SumLen(entities) ==
    IF entities = <<>> THEN 0 ELSE SpanLen(Head(entities)) + SumLen(Tail(entities))

\* C1: the list the merger returns holds no two entities whose ranges
\* [start, end) overlap; touching ranges are allowed.
C1_NoOverlap ==
    MergeReturned =>
        \A i, j \in 1..Len(filtered_entities) :
            i # j => Disjoint(filtered_entities[i], filtered_entities[j])

\* C1 witness: the merger dropped an entity and kept two that touch.
C1_Witness ==
    /\ MergeReturned
    /\ Len(filtered_entities) < Len(all_entities)
    /\ \E i, j \in 1..Len(filtered_entities) :
          filtered_entities[i].end = filtered_entities[j].start

\* a and b have the same length, overlap each other, and a starts first
TiedPair(a, b) ==
    /\ SpanLen(a) = SpanLen(b)
    /\ a.start < b.start
    /\ ~Disjoint(a, b)

\* C4 as stated: of two overlapping entities of equal length the one with
\* the greater start sorts first, and when only one of the two is kept it is
\* that one.
C4_LaterStartPreferred ==
    MergeReturned =>
        \A i, j \in 1..Len(all_entities) :
            TiedPair(all_entities[i], all_entities[j]) =>
                /\ j < i
                /\ (Kept(all_entities[i]) # Kept(all_entities[j]))
                      => Kept(all_entities[j])

\* C4 amended: of two overlapping entities of equal length the one with the
\* smaller start sorts first; the two are never both kept, and the one with
\* the smaller start is kept whenever every entity of another span that
\* overlaps it, the later one of the pair aside, is shorter than itself.
C4_EarlierStartPreferred ==
    MergeReturned =>
        \A i, j \in 1..Len(all_entities) :
            TiedPair(all_entities[i], all_entities[j]) =>
                /\ i < j
                /\ ~(Kept(all_entities[i]) /\ Kept(all_entities[j]))
                /\ (\A k \in 1..Len(all_entities) :
                       (/\ ~SameSpan(all_entities[k], all_entities[i])
                        /\ ~SameSpan(all_entities[k], all_entities[j])
                        /\ ~Disjoint(all_entities[k], all_entities[i]))
                           => SpanLen(all_entities[k]) < SpanLen(all_entities[i]))
                      => (Kept(all_entities[i]) /\ ~Kept(all_entities[j]))

\* C4 witness: two overlapping entities of equal length, the earlier one
\* kept and the later one dropped.
C4_Witness ==
    /\ MergeReturned
    /\ \E i, j \in 1..Len(all_entities) :
          /\ TiedPair(all_entities[i], all_entities[j])
          /\ Kept(all_entities[i])
          /\ ~Kept(all_entities[j])

\* the sub-lists of the argument, as sets of indices, that are pairwise
\* non-overlapping
NonOverlappingSubsets ==
    {S \in SUBSET (1..Len(all_entities)) :
        \A i, j \in S : i # j => Disjoint(all_entities[i], all_entities[j])}

RECURSIVE SumLenOver(_)
SumLenOver(S) ==
    IF S = {} THEN 0
    ELSE LET i == CHOOSE x \in S : TRUE
         IN  SpanLen(all_entities[i]) + SumLenOver(S \ {i})

\* C5 as stated: the total length the returned list covers is at least that
\* of every pairwise non-overlapping sub-list of the argument.
C5_LengthMaximizing ==
    MergeReturned =>
        \A S \in NonOverlappingSubsets : SumLenOver(S) <= SumLen(filtered_entities)

\* C5 amended: the selection is greedy, longest first.  Every entity of the
\* argument whose span is not kept overlaps a kept entity at least as long
\* as itself; so the covered length is at least the length of the longest entity
\* of the argument, and no pairwise non-overlapping sub-list covers more than
\* three times as much.
C5_GreedyLongestFirst ==
    MergeReturned =>
        /\ \A i \in 1..Len(all_entities) :
              Kept(all_entities[i]) \/
              \E k \in 1..Len(filtered_entities) :
                  /\ ~Disjoint(all_entities[i], filtered_entities[k])
                  /\ SpanLen(filtered_entities[k]) >= SpanLen(all_entities[i])
        /\ \A i \in 1..Len(all_entities) :
              SpanLen(all_entities[i]) <= SumLen(filtered_entities)
        /\ \A S \in NonOverlappingSubsets :
              SumLenOver(S) <= 3 * SumLen(filtered_entities)

\* C5 witness: the returned list covers less than another non-overlapping
\* sub-list of the argument.
C5_Witness ==
    /\ MergeReturned
    /\ \E S \in NonOverlappingSubsets : SumLenOver(S) > SumLen(filtered_entities)

\* a's range contains b's and is longer
StrictlyContains(a, b) ==
    /\ a.start <= b.start
    /\ b.end <= a.end
    /\ SpanLen(a) > SpanLen(b)

\* C6 as stated: whenever one entity of the argument strictly contains
\* another, the containing one is kept.
C6_ContainingKept ==
    MergeReturned =>
        \A i, j \in 1..Len(all_entities) :
            StrictlyContains(all_entities[i], all_entities[j])
                => Kept(all_entities[i])

\* C6 amended: whenever one entity of the argument strictly contains another,
\* the two are never both kept, and the containing one is kept and the
\* contained one dropped provided every entity of another span that overlaps
\* the containing one is shorter than it.
C6_ContainingKeptUnlessBlocked ==
    MergeReturned =>
        \A i, j \in 1..Len(all_entities) :
            StrictlyContains(all_entities[i], all_entities[j]) =>
                /\ ~(Kept(all_entities[i]) /\ Kept(all_entities[j]))
                /\ (\A k \in 1..Len(all_entities) :
                       (/\ ~SameSpan(all_entities[k], all_entities[i])
                        /\ ~Disjoint(all_entities[k], all_entities[i]))
                           => SpanLen(all_entities[k]) < SpanLen(all_entities[i]))
                      => (Kept(all_entities[i]) /\ ~Kept(all_entities[j]))

\* C6 witness: three entities, one containing another and overlapping a
\* third, shorter one; the containing one is kept and the other two dropped.
C6_Witness ==
    /\ MergeReturned
    /\ Len(all_entities) = 3
    /\ \E i, j, k \in 1..Len(all_entities) :
          /\ StrictlyContains(all_entities[i], all_entities[j])
          /\ ~StrictlyContains(all_entities[i], all_entities[k])
          /\ ~Disjoint(all_entities[k], all_entities[i])
          /\ SpanLen(all_entities[k]) < SpanLen(all_entities[i])
          /\ Kept(all_entities[i])
          /\ ~Kept(all_entities[j])
          /\ ~Kept(all_entities[k])

-----------------------------------------------------------------------------
(* Properties of anonymize_text (Spec).  In a state with pc = "done" the   *)
(* call has returned result[1]; all_entities is the combined list as the    *)
(* merger left it (sorted, the same entities), filtered_entities the        *)
(* merger's output and entities_to_mask the list the loop went through.     *)

Returned == pc = "done"

\* position p (1-based) of the text lies inside the span of e
Inside(p, e) == e.start < p /\ p <= e.end

\* C2: in asterisk mode with a single-character mask the anonymized text has
\* the length of the original, holds the mask character at every position
\* inside a masked span and the original character everywhere else.
C2_AsteriskText ==
    (Returned /\ ~use_descriptive_masks /\ Len(mask_char) = 1) =>
        LET anonymized == result[1].anonymized_text
        IN  /\ Len(anonymized) = Len(text)
            /\ \A p \in 1..Len(text) :
                  anonymized[p] =
                     IF \E k \in 1..Len(entities_to_mask) : Inside(p, entities_to_mask[k])
                     THEN mask_char[1]
                     ELSE text[p]

\* C2 witness: two spans were masked with '*' and a character between them
\* was left alone.
C2_Witness ==
    /\ Returned
    /\ ~use_descriptive_masks
    /\ mask_char = <<"*">>
    /\ Len(result[1].masked_entities) = 2
    /\ text = PlainText
    /\ \E p \in 2..(Len(text) - 1) : result[1].anonymized_text[p] = text[p]
    /\ result[1].anonymized_text[1] = "*"
    /\ result[1].anonymized_text[Len(text)] = "*"

\* the entities of set S in ascending order of start (their starts differ)
RECURSIVE C3_Ascending(_)
C3_Ascending(S) ==
    IF S = {} THEN <<>>
    ELSE LET first == CHOOSE e \in S : \A f \in S : e.start <= f.start
         IN  <<first>> \o C3_Ascending(S \ {first})

\* the reference: replace left to right, each span found at its start moved
\* by the shift the earlier replacements caused.  Every type the producers
\* emit is upper-case, so the tag holds the type as it is.
RECURSIVE C3_LeftToRight(_, _, _)
C3_LeftToRight(out, ascending, shift) ==
    IF ascending = <<>> THEN out
    ELSE LET e   == Head(ascending)
             tag == <<"<","M","A","S","K","E","D","_">> \o e.type \o <<">">>
         IN  C3_LeftToRight(
                 SubSeq(out, 1, e.start + shift) \o tag
                     \o SubSeq(out, e.end + shift + 1, Len(out)),
                 Tail(ascending),
                 shift + Len(tag) - (e.end - e.start))

\* C3: in descriptive mode the text returned by the rightmost-first loop is
\* the text of the left-to-right reference that tracks the offset shifts.
C3_DescriptiveMatchesReference ==
    (Returned /\ use_descriptive_masks) =>
        result[1].anonymized_text =
            C3_LeftToRight(text,
                C3_Ascending({entities_to_mask[k] : k \in 1..Len(entities_to_mask)}),
                0)

\* C3 witness: two spans were replaced by tags, with original text before,
\* between or after them.
C3_Witness ==
    /\ Returned
    /\ use_descriptive_masks
    /\ Len(result[1].masked_entities) = 2
    /\ result[1].masked_entities[1].type # result[1].masked_entities[2].type
    /\ Len(result[1].anonymized_text) >
          Len(result[1].masked_entities[1].mask) + Len(result[1].masked_entities[2].mask)

Preserved(e) == InList(e.type, preserve_types)

\* how far the masks of the spans left of e moved the characters of e
ShiftAt(e, masked) ==
    LET RECURSIVE Sum(_)
        Sum(k) == IF k = 0 THEN 0
                  ELSE Sum(k - 1) +
                       (IF masked[k].position[2] <= e.start
                        THEN Len(masked[k].mask)
                               - (masked[k].position[2] - masked[k].position[1])
                        ELSE 0)
    IN  Sum(Len(masked))

\* the characters of the span of e stand unchanged in the anonymized text
Readable(e, res) ==
    LET shift == ShiftAt(e, res.masked_entities)
    IN  /\ e.end + shift <= Len(res.anonymized_text)
        /\ SubSeq(res.anonymized_text, e.start + shift + 1, e.end + shift) = e.text

NotPreservedCount(entities) ==
    Cardinality({k \in 1..Len(entities) : ~Preserved(entities[k])})

\* C7 as stated: no entity of a preserved type is in masked_entities, the
\* characters of the span of every entity of a preserved type given to the
\* core are unchanged, and total_entities_masked is the number of entities
\* of non-preserved types among the entities given to the core.
C7_PreservedOfAllGiven ==
    Returned =>
        /\ \A k \in 1..Len(result[1].masked_entities) :
              ~Preserved(result[1].masked_entities[k])
        /\ \A i \in 1..Len(all_entities) :
              Preserved(all_entities[i]) => Readable(all_entities[i], result[1])
        /\ result[1].total_entities_masked = NotPreservedCount(all_entities)

\* C7 amended: no entity of a preserved type is in masked_entities, the
\* characters of the span of every entity of a preserved type that the
\* merger kept are unchanged, and total_entities_masked is the number of
\* entities of non-preserved types among the entities the merger kept.
C7_PreservedOfKept ==
    Returned =>
        /\ \A k \in 1..Len(result[1].masked_entities) :
              ~Preserved(result[1].masked_entities[k])
        /\ \A i \in 1..Len(filtered_entities) :
              Preserved(filtered_entities[i])
                 => Readable(filtered_entities[i], result[1])
        /\ result[1].total_entities_masked = NotPreservedCount(filtered_entities)
        /\ result[1].total_entities_masked = Len(result[1].masked_entities)

\* C7 witness: the merger kept an entity of a preserved type and one of
\* another type; the second was masked.
C7_Witness ==
    /\ Returned
    /\ Len(filtered_entities) = 2
    /\ \E i \in 1..2 : Preserved(filtered_entities[i])
    /\ result[1].total_entities_masked = 1

\* the whole loop of anonymize_text over a list, from a text and a list of
\* records
RECURSIVE C8_MaskAll(_, _, _)
C8_MaskAll(entities, mtext, mentities) ==
    IF entities = <<>> THEN [anonymized_text |-> mtext, masked_entities |-> mentities]
    ELSE LET entity == Head(entities)
             mask   == MaskOf(entity, use_descriptive_masks, mask_char)
         IN  C8_MaskAll(Tail(entities), Splice(mtext, entity, mask),
                        Append(mentities, MaskedRecord(entity, mask)))

\* what the call would give if the entities of preserved types were taken
\* out of the combined list before the merger ran
C8_FilterFirst ==
    C8_MaskAll(
        SortByStart(RemoveOverlapping(
            SelectSeq(all_entities, LAMBDA entity : ~Preserved(entity)))),
        text, <<>>)

C8_SameAsFilterFirst ==
    /\ result[1].anonymized_text = C8_FilterFirst.anonymized_text
    /\ result[1].masked_entities = C8_FilterFirst.masked_entities
    /\ result[1].total_entities_masked = Len(C8_FilterFirst.masked_entities)

\* C8 as stated: text, masked_entities and count are those of the call with
\* the preserved types removed before the merger runs.
C8_FilterCommutes == Returned => C8_SameAsFilterFirst

\* no entity of a preserved type overlaps one of another type
C8_ClassesApart ==
    \A i, j \in 1..Len(all_entities) :
        (Preserved(all_entities[i]) /\ ~Preserved(all_entities[j]))
            => Disjoint(all_entities[i], all_entities[j])

\* C8 amended: the same, for the combined lists in which no entity of a
\* preserved type overlaps an entity of another type.
C8_FilterCommutesWhenApart ==
    (Returned /\ C8_ClassesApart) => C8_SameAsFilterFirst

\* C8 witness: an entity of a preserved type and one of another type, apart
\* from each other; the loop masked the second.
C8_Witness ==
    /\ Returned
    /\ C8_ClassesApart
    /\ \E i, j \in 1..Len(all_entities) :
          Preserved(all_entities[i]) /\ ~Preserved(all_entities[j])
    /\ Len(result[1].masked_entities) = 1

\* C10: a call for which the producers return no entity goes through every
\* step and returns the text unchanged, no masked entity, the count 0, the
\* risk 'low' and a compliance report with empty lists.
C10_NoEntities ==
    (all_entities = <<>> /\ pc # "extract") =>
        /\ pc # "done" => ENABLED Next
        /\ Returned =>
              /\ result[1].anonymized_text = text
              /\ result[1].masked_entities = <<>>
              /\ result[1].total_entities_masked = 0
              /\ result[1].privacy_risk = "low"
              /\ result[1].gdpr_compliance.personal_data_detected = <<>>
              /\ result[1].gdpr_compliance.special_categories = <<>>
              /\ result[1].gdpr_compliance.recommendations = <<>>

\* C10 witness: the call returned and the combined list was empty.
C10_Witness ==
    /\ Returned
    /\ all_entities = <<>>
    /\ filtered_entities = <<>>

-----------------------------------------------------------------------------
(* Properties of the assessors (SpecRisk).                                 *)

C9_High   == {Str_PERSONAL_ID, Str_CREDIT_CARD, Str_EMAIL, Str_IBAN,
              Str_TAX_NUMBER, Str_BANK_ACCOUNT}
C9_Medium == {Str_PER, Str_PHONE, Str_IP_ADDRESS}

\* the reference of the claim, on a list of types
C9_Reference(types) ==
    IF \E k \in 1..Len(types) : types[k] \in C9_High THEN "high"
    ELSE IF Cardinality({k \in 1..Len(types) : types[k] \in C9_Medium}) > 1
         THEN "medium"
    ELSE "low"

\* C9: the risk returned is the reference's for the list of masked types:
\* 'high' with a HIGH type, else 'medium' with more than one occurrence of
\* MEDIUM types, else 'low'.
C9_RiskMatchesReference ==
    Returned =>
        /\ result[1].privacy_risk \in {"low", "medium", "high"}
        /\ result[1].privacy_risk =
              C9_Reference([k \in 1..Len(masked_entities) |-> masked_entities[k].type])

\* C9 witness: two entities of the same MEDIUM type and a LOW one give
\* 'medium'.
C9_Witness ==
    /\ Returned
    /\ Len(masked_entities) = 3
    /\ masked_entities[1].type = Str_PER
    /\ masked_entities[2].type = Str_PER
    /\ masked_entities[3].type = Str_LOC
    /\ result[1].privacy_risk = "medium"

C11_Table ==
    {Str_PER, Str_EMAIL, Str_PHONE, Str_PERSONAL_ID, Str_CREDIT_CARD, Str_IBAN,
     Str_TAX_NUMBER, Str_BANK_ACCOUNT, Str_IP_ADDRESS, Str_DATE, Str_LOC, Str_ORG,
     Str_URL, Str_ADDRESS}
C11_Special ==
    {Str_PERSONAL_ID, Str_CREDIT_CARD, Str_IBAN, Str_TAX_NUMBER, Str_BANK_ACCOUNT}

\* the descriptions of the types of the list that are in set S, in the order
\* of the list, one for each occurrence
C11_Descriptions(types, S) ==
    LET chosen == SelectSeq(types, LAMBDA t : t \in S)
    IN  [k \in 1..Len(chosen) |-> personal_data_types(chosen[k])]

\* C11: the compliance report lists, in entity order and once per
\* occurrence, the description of every masked type of the lookup table, and
\* among the special categories those of the five special types; a type
\* outside the table is left out; the legal-basis recommendation is there iff
\* something was detected and the safeguards recommendation iff a special
\* category was.
C11_ComplianceMatchesReference ==
    Returned =>
        LET types  == [k \in 1..Len(masked_entities) |-> masked_entities[k].type]
            report == result[1].gdpr_compliance
        IN  /\ report.personal_data_detected = C11_Descriptions(types, C11_Table)
            /\ report.special_categories = C11_Descriptions(types, C11_Special)
            /\ InList("Ensure proper legal basis for processing personal data",
                      report.recommendations)
                  <=> (report.personal_data_detected # <<>>)
            /\ InList("Special category data detected - additional safeguards required",
                      report.recommendations)
                  <=> (report.special_categories # <<>>)
            /\ Len(report.recommendations) <= 2

\* C11 witness: a type outside the table, a special type and an ordinary
\* one; two descriptions detected, one special, both recommendations.
C11_Witness ==
    /\ Returned
    /\ Len(masked_entities) = 3
    /\ masked_entities[1].type = Str_MISC
    /\ masked_entities[2].type = Str_IBAN
    /\ masked_entities[3].type = Str_EMAIL
    /\ Len(result[1].gdpr_compliance.personal_data_detected) = 2
    /\ Len(result[1].gdpr_compliance.special_categories) = 1
    /\ Len(result[1].gdpr_compliance.recommendations) = 2

-----------------------------------------------------------------------------
(* C13 *)

\* the spans of a list of entities, in the order of the list
C13_SpansOf(entities) ==
    [k \in 1..Len(entities) |-> <<entities[k].start, entities[k].end>>]

\* the positions of a list of masked-entity records, in the order of the list
C13_PositionsOf(masked) == [k \in 1..Len(masked) |-> masked[k].position]

\* the merger's output without the preserved types, in the merger's order
C13_MergerOutputKept == SelectSeq(filtered_entities, LAMBDA e : ~Preserved(e))

\* C13 as stated: masked_entities lists its entities in the relative order
\* in which the merger's output lists them, preserved types removed.
C13_MergerOrder ==
    Returned =>
        C13_PositionsOf(result[1].masked_entities) = C13_SpansOf(C13_MergerOutputKept)

\* C13 amended: masked_entities holds the entities of the merger's output,
\* preserved types removed, in the order of their position in the text from
\* right to left: each start is strictly below the start before it.
C13_RightToLeftOrder ==
    Returned =>
        LET masked == result[1].masked_entities
        IN  /\ Len(masked) = Len(C13_MergerOutputKept)
            /\ \A k \in 1..Len(masked) :
                  \E i \in 1..Len(C13_MergerOutputKept) :
                      /\ masked[k].position[1] = C13_MergerOutputKept[i].start
                      /\ masked[k].position[2] = C13_MergerOutputKept[i].end
                      /\ masked[k].type = C13_MergerOutputKept[i].type
            /\ \A k \in 1..(Len(masked) - 1) :
                  masked[k].position[1] > masked[k + 1].position[1]

\* C13 witness: the merger lists the longer, left entity first and the
\* record of the right entity comes first in masked_entities.
C13_Witness ==
    /\ Returned
    /\ Len(result[1].masked_entities) = 2
    /\ Len(filtered_entities) = 2
    /\ filtered_entities[1].start < filtered_entities[2].start
    /\ result[1].masked_entities[1].position[1] = filtered_entities[2].start
    /\ result[1].masked_entities[2].position[1] = filtered_entities[1].start

-----------------------------------------------------------------------------
(* C14 *)

\* the mask stands in the anonymized text where the span of the record was,
\* moved by the masks spliced in to its left
C14_MaskInText(rec, res) ==
    LET e     == [start |-> rec.position[1], end |-> rec.position[2]]
        shift == ShiftAt(e, res.masked_entities)
    IN  /\ e.start + shift + Len(rec.mask) <= Len(res.anonymized_text)
        /\ SubSeq(res.anonymized_text, e.start + shift + 1,
                  e.start + shift + Len(rec.mask)) = rec.mask

\* the record carries the fields of the entity
C14_RecordOf(rec, e) ==
    /\ rec.original = e.text
    /\ rec.type = e.type
    /\ rec.position = <<e.start, e.end>>
    /\ rec.detection_method = e.detection_method
    /\ rec.confidence = e.confidence

\* C14: masked_entities has one record for each entity the merger kept whose
\* type is not preserved and no other record; the record carries the
\* entity's text, type, span in the original text, detection method and
\* confidence, and the mask that stands in the anonymized text in its place.
C14_OneRecordPerKeptEntity ==
    Returned =>
        LET masked == result[1].masked_entities
        IN  /\ Len(masked) = Len(C13_MergerOutputKept)
            /\ \A i \in 1..Len(C13_MergerOutputKept) :
                  Cardinality({k \in 1..Len(masked) :
                                  C14_RecordOf(masked[k], C13_MergerOutputKept[i])}) = 1
            /\ \A k \in 1..Len(masked) :
                  /\ masked[k].original =
                        SubSeq(text, masked[k].position[1] + 1, masked[k].position[2])
                  /\ masked[k].mask =
                        (IF use_descriptive_masks
                         THEN <<"<", "M", "A", "S", "K", "E", "D", "_">>
                                \o Upper(masked[k].type) \o <<">">>
                         ELSE Repeat(mask_char,
                                     masked[k].position[2] - masked[k].position[1]))
                  /\ C14_MaskInText(masked[k], result[1])

\* C14 witness: two entities of different types masked with descriptive
\* masks, the left one starting the text; the right record's mask stands in
\* the longer anonymized text after the shift by the left one.
C14_Witness ==
    /\ Returned
    /\ use_descriptive_masks
    /\ Len(result[1].masked_entities) = 2
    /\ result[1].masked_entities[1].type # result[1].masked_entities[2].type
    /\ result[1].masked_entities[2].position[1] = 0
    /\ Len(result[1].anonymized_text) > Len(text)

-----------------------------------------------------------------------------
(* C15 *)

\* C15: in asterisk mode with a single mask character every recorded mask
\* is as long as the span of its entity, at every step of the loop and in
\* the result.
C15_MaskLength ==
    (~use_descriptive_masks /\ Len(mask_char) = 1) =>
        /\ \A k \in 1..Len(masked_entities) :
              Len(masked_entities[k].mask) =
                  masked_entities[k].position[2] - masked_entities[k].position[1]
        /\ Returned =>
              \A k \in 1..Len(result[1].masked_entities) :
                  Len(result[1].masked_entities[k].mask) =
                      result[1].masked_entities[k].position[2]
                        - result[1].masked_entities[k].position[1]

\* C15 witness: asterisk mode, one mask character, two entities of
\* different lengths masked.
C15_Witness ==
    /\ Returned
    /\ ~use_descriptive_masks
    /\ Len(mask_char) = 1
    /\ Len(result[1].masked_entities) = 2
    /\ Len(result[1].masked_entities[1].mask) = 1
    /\ Len(result[1].masked_entities[2].mask) = 3

-----------------------------------------------------------------------------
(* C17 *)

\* how many entities of the list returned have the span of e
C17_KeptCount(e) ==
    Cardinality({k \in 1..Len(filtered_entities) : SameSpan(filtered_entities[k], e)})

\* every entity of the argument of another span that overlaps e is shorter
C17_OnlyShorterOverlap(e) ==
    \A k \in 1..Len(all_entities) :
        (~SameSpan(all_entities[k], e) /\ ~Disjoint(all_entities[k], e))
            => SpanLen(all_entities[k]) < SpanLen(e)

\* C17 as stated: when the argument holds several entities of one span,
\* exactly one of them is in the list returned.
C17_ExactlyOneOfSameSpan ==
    MergeReturned =>
        \A i, j \in 1..Len(all_entities) :
            (i # j /\ SameSpan(all_entities[i], all_entities[j]))
                => C17_KeptCount(all_entities[i]) = 1

\* C17 amended: when the argument holds several entities of one span, at
\* most one of them is in the list returned; exactly one is, the first of
\* them in the argument's order, when every entity of another span that
\* overlaps them is shorter.
C17_AtMostOneOfSameSpan ==
    MergeReturned =>
        \A i, j \in 1..Len(all_entities) :
            (i < j /\ SameSpan(all_entities[i], all_entities[j])) =>
                /\ C17_KeptCount(all_entities[i]) <= 1
                /\ C17_OnlyShorterOverlap(all_entities[i]) =>
                      /\ C17_KeptCount(all_entities[i]) = 1
                      /\ (\A h \in 1..(i - 1) : ~SameSpan(all_entities[h], all_entities[i]))
                            => \E k \in 1..Len(filtered_entities) :
                                   filtered_entities[k] = all_entities[i]

\* C17 witness: two entities of one span from two producers and a shorter
\* one overlapping them; the first of the two is the only entity returned.
C17_Witness ==
    /\ MergeReturned
    /\ Len(all_entities) = 3
    /\ SameSpan(all_entities[1], all_entities[2])
    /\ all_entities[1].type # all_entities[2].type
    /\ ~Disjoint(all_entities[3], all_entities[1])
    /\ SpanLen(all_entities[3]) < SpanLen(all_entities[1])
    /\ filtered_entities = <<all_entities[1]>>

-----------------------------------------------------------------------------
(* C18 *)

\* how many records of the list were detected by the method
C18_EmittedBy(masked, method) ==
    Cardinality({k \in 1..Len(masked) : masked[k].detection_method = method})

\* C18: in the result total_entities_masked is the length of
\* masked_entities, each of the four counts of detection_methods is the
\* number of masked entities its producer emitted, and the four counts add
\* up to total_entities_masked.
C18_CountsMatch ==
    Returned =>
        LET res     == result[1]
            methods == res.detection_methods
        IN  /\ res.total_entities_masked = Len(res.masked_entities)
            /\ methods.classla_ner
                  = C18_EmittedBy(res.masked_entities, "classla_ner")
            /\ methods.presidio_patterns
                  = C18_EmittedBy(res.masked_entities, "presidio_pattern")
            /\ methods.google_phonenumbers
                  = C18_EmittedBy(res.masked_entities, "google_phonenumbers")
            /\ methods.regional_patterns
                  = C18_EmittedBy(res.masked_entities, "regional_pattern")
            /\ methods.classla_ner + methods.presidio_patterns
                 + methods.google_phonenumbers + methods.regional_patterns
                  = res.total_entities_masked

\* C18 witness: two entities of one producer masked; its count is 2 and the
\* other three are 0.
C18_Witness ==
    /\ Returned
    /\ result[1].total_entities_masked = 2
    /\ result[1].detection_methods.regional_patterns = 2
    /\ result[1].detection_methods.classla_ner = 0
    /\ result[1].detection_methods.presidio_patterns = 0
    /\ result[1].detection_methods.google_phonenumbers = 0

-----------------------------------------------------------------------------
(* C19 *)

\* the positions, among the first i of the sorted argument, of the entities
\* that overlap no entity accepted before them
RECURSIVE C19_Accepted(_)
C19_Accepted(i) ==
    IF i = 0 THEN {}
    ELSE LET before == C19_Accepted(i - 1)
         IN  IF \E j \in before : ~Disjoint(all_entities[i], all_entities[j])
             THEN before
             ELSE before \cup {i}

\* the entities at those positions, in sort order
RECURSIVE C19_AcceptedSeq(_)
C19_AcceptedSeq(i) ==
    IF i = 0 THEN <<>>
    ELSE IF i \in C19_Accepted(i)
         THEN Append(C19_AcceptedSeq(i - 1), all_entities[i])
         ELSE C19_AcceptedSeq(i - 1)

\* C19: the merger returns, in sort order, exactly the entities that overlap
\* no entity accepted before them; every entity it discards overlaps a kept
\* entity that sorts before it and is at least as long; the first entity in
\* sort order is one of the longest and is kept.
C19_AcceptedIffNoEarlierOverlap ==
    MergeReturned =>
        LET n   == Len(all_entities)
            acc == C19_Accepted(n)
        IN  /\ filtered_entities = C19_AcceptedSeq(n)
            /\ \A i \in (1..n) \ acc :
                  \E j \in acc :
                      /\ j < i
                      /\ ~Disjoint(all_entities[i], all_entities[j])
                      /\ SpanLen(all_entities[j]) >= SpanLen(all_entities[i])
            /\ n > 0 =>
                  /\ filtered_entities[1] = all_entities[1]
                  /\ \A i \in 1..n : SpanLen(all_entities[1]) >= SpanLen(all_entities[i])

\* C19 witness: the third entity in sort order overlaps the first accepted
\* entity and not the second; it is discarded and the other two are kept.
C19_Witness ==
    /\ MergeReturned
    /\ Len(all_entities) = 3
    /\ Disjoint(all_entities[1], all_entities[2])
    /\ ~Disjoint(all_entities[3], all_entities[1])
    /\ Disjoint(all_entities[3], all_entities[2])
    /\ filtered_entities = <<all_entities[1], all_entities[2]>>

-----------------------------------------------------------------------------
(* C20 *)

\* how many times the record stands in the list
C20_Count(r, list) == Cardinality({k \in 1..Len(list) : list[k] = r})

\* the two lists hold the same records the same number of times
C20_IsPermutation(a, b) ==
    /\ Len(a) = Len(b)
    /\ \A k \in 1..Len(a) : C20_Count(a[k], a) = C20_Count(a[k], b)

\* no two entities of the list overlap
C20_PairwiseDisjoint(list) ==
    \A i, j \in 1..Len(list) : i # j => Disjoint(list[i], list[j])

\* the call of the merger: its argument unprimed, the list it returns primed
C20_MergeStep ==
    (pc = "merge" /\ pc' = "filter") =>
        /\ \A i, j \in 1..Len(all_entities) :
              (/\ i # j
               /\ all_entities[i].end = all_entities[j].start
               /\ \A k \in 1..Len(filtered_entities') :
                     filtered_entities'[k] \notin {all_entities[i], all_entities[j]}
                        => /\ Disjoint(filtered_entities'[k], all_entities[i])
                           /\ Disjoint(filtered_entities'[k], all_entities[j]))
                 => /\ InList(all_entities[i], filtered_entities')
                    /\ InList(all_entities[j], filtered_entities')
        /\ C20_PairwiseDisjoint(all_entities)
              => C20_IsPermutation(filtered_entities', all_entities)

\* C20: two entities of the argument that touch (the end of one is the start
\* of the other) and overlap no other kept entity are both in the list the
\* merger returns, and an argument whose entities are pairwise
\* non-overlapping is returned as a permutation of itself.
C20_TouchingKept == [][C20_MergeStep]_vars

\* C20 witness: three entities, each touching the next, given out of sort
\* order; all three are returned.
C20_Witness ==
    /\ MergeReturned
    /\ Len(filtered_entities) = 3
    /\ \E i, j, k \in 1..3 :
          /\ filtered_entities[i].end = filtered_entities[j].start
          /\ filtered_entities[j].end = filtered_entities[k].start
    /\ SpanLen(filtered_entities[1]) > SpanLen(filtered_entities[2])

-----------------------------------------------------------------------------
(* The loop of anonymize_text as a function of the list it runs over.      *)

\* masked_text and masked_entities after the iterations k, k + 1, ... of the
\* loop over entities, begun with the values in acc
RECURSIVE MaskLoop(_, _, _, _, _)
MaskLoop(entities, k, descriptive, mc, acc) ==
    IF k > Len(entities) THEN acc
    ELSE LET entity == entities[k]
             mask   == MaskOf(entity, descriptive, mc)
         IN  MaskLoop(entities, k + 1, descriptive, mc,
                      [masked_text     |-> Splice(acc.masked_text, entity, mask),
                       masked_entities |-> Append(acc.masked_entities,
                                                  MaskedRecord(entity, mask))])

\* the dict anonymize_text returns for txt when the producers give entities
AnonymizeText(txt, mc, preserve, descriptive, entities) ==
    LET filtered == RemoveOverlapping(entities)
        to_mask  == EntitiesToMask(filtered, preserve)
        done     == MaskLoop(to_mask, 1, descriptive, mc,
                             [masked_text |-> txt, masked_entities |-> <<>>])
    IN  ResultOf(txt, done.masked_text, done.masked_entities)

-----------------------------------------------------------------------------
(* One call of anonymize_text with a defective producer: the spans of its  *)
(* entities are any pair of offsets from one below the text to one beyond  *)
(* it, in any order.                                                       *)

\* s[a:b] for any a and b
PySlice(s, a, b) == SubSeq(s, PyIndex(s, a) + 1, PyIndex(s, b))

AnySpans == ((0 - 1)..(TextLen + 1)) \X ((0 - 1)..(TextLen + 1))

\* 0 <= start < end <= len(text)
C12_ValidSpan(entity, txt) ==
    /\ 0 <= entity.start
    /\ entity.start < entity.end
    /\ entity.end <= Len(txt)

DefectKinds == {KindOf(Str_EMAIL)}

\* the dict appended for a match reported at (sp[1], sp[2])
DefectEntity(txt, sp, kind) ==
    [text             |-> PySlice(txt, sp[1], sp[2]),
     type             |-> kind.type,
     start            |-> sp[1],
     end              |-> sp[2],
     detection_method |-> kind.detection_method,
     confidence       |-> kind.confidence]

InitDefect ==
    /\ NoService
    /\ pc = "extract"
    /\ text = PlainText
    /\ use_descriptive_masks \in BOOLEAN
    /\ mask_char = <<"*">>
    /\ preserve_types = <<>>
    /\ all_entities = <<>>
    /\ filtered_entities = <<>>
    /\ entities_to_mask = <<>>
    /\ masked_text = <<>>
    /\ masked_entities = <<>>
    /\ result = <<>>

\* The producers run; the spans they report are not checked.
ExtractDefect ==
    /\ pc = "extract"
    /\ \E m \in 0..MaxEntities : \E choice \in [1..m -> AnySpans \X DefectKinds] :
          all_entities' = [k \in 1..m |-> DefectEntity(text, choice[k][1], choice[k][2])]
    /\ pc' = "merge"
    /\ UNCHANGED serviceVars
    /\ UNCHANGED <<text, mask_char, preserve_types, use_descriptive_masks,
                   filtered_entities, entities_to_mask, masked_text,
                   masked_entities, result>>

NextDefect == ExtractDefect \/ Merge \/ FilterPreserved \/ MaskEntity \/ Return

SpecDefect == InitDefect /\ [][NextDefect]_vars

\* the entities of the list whose span is valid for the text
C12_ValidOnly(entities) == SelectSeq(entities, LAMBDA e : C12_ValidSpan(e, text))

\* C12 as stated: an entity whose span is invalid for the text is dropped:
\* it is not in masked_entities and the result is the one the call gives
\* for the valid entities alone.
C12_InvalidSpanDropped ==
    Returned =>
        LET expected == AnonymizeText(text, mask_char, preserve_types,
                                      use_descriptive_masks,
                                      C12_ValidOnly(all_entities))
        IN  /\ \A k \in 1..Len(result[1].masked_entities) :
                  LET position == result[1].masked_entities[k].position
                  IN  0 <= position[1] /\ position[1] < position[2]
                                       /\ position[2] <= Len(text)
            /\ result[1].anonymized_text = expected.anonymized_text
            /\ result[1].masked_entities = expected.masked_entities

\* what the code does with a span whose start is beyond its end: the record
\* is kept and the characters between end and start stand twice in the text
C12_InvalidSpanMasked ==
    /\ Returned
    /\ ~use_descriptive_masks
    /\ Len(result[1].masked_entities) = 1
    /\ result[1].masked_entities[1].position = <<3, 1>>
    /\ result[1].masked_entities[1].mask = <<>>
    /\ result[1].anonymized_text = <<"a", "b", "c", "b", "c", "d">>

-----------------------------------------------------------------------------
(* Two calls of anonymize_text on the one anonymizer instance that          *)
(* initialize_anonymizer builds (docker_api.py), their steps interleaved in *)
(* any order.  Here every variable is a function: pc, the arguments and     *)
(* result of the calls, the local names of the frames.  The frame "self"    *)
(* stands for the instance: it holds a name only if a call stores it there. *)

\* Longest combined entity list of one of the two calls.
MaxCallEntities == 1

Calls == {"call1", "call2"}

Frames == Calls \cup {"self"}

\* the kinds of the producers' matches in the two calls
CallKinds == {KindOf(Str_EMAIL)}

\* the local names as attributes of the instance
LocalOf_Instance(c) == "self"

\* the frame that holds the local names all_entities, filtered_entities,
\* entities_to_mask, masked_text and masked_entities of call c: its own
LocalOf(c) == c

InitCalls ==
    /\ NoService
    /\ pc = [c \in Calls |-> "extract"]
    /\ text = [c \in Calls |-> PlainText]
    /\ use_descriptive_masks \in [Calls -> BOOLEAN]
    /\ ~use_descriptive_masks["call1"]
    /\ mask_char = [c \in Calls |-> <<"*">>]
    /\ preserve_types = [c \in Calls |-> <<>>]
    /\ all_entities = [f \in Frames |-> <<>>]
    /\ filtered_entities = [f \in Frames |-> <<>>]
    /\ entities_to_mask = [f \in Frames |-> <<>>]
    /\ masked_text = [f \in Frames |-> <<>>]
    /\ masked_entities = [f \in Frames |-> <<>>]
    /\ result = [c \in Calls |-> <<>>]

\* The three producers run for call c and their lists are concatenated.
CallExtract(c) ==
    /\ pc[c] = "extract"
    /\ \E m \in 0..MaxCallEntities : \E choice \in [1..m -> Spans \X CallKinds] :
          /\ ProducerOrdered(choice)
          /\ all_entities' =
                [all_entities EXCEPT ![LocalOf(c)] =
                    [k \in 1..m |-> MakeEntity(text[c], choice[k][1], choice[k][2])]]
    /\ pc' = [pc EXCEPT ![c] = "merge"]
    /\ UNCHANGED serviceVars
    /\ UNCHANGED <<text, mask_char, preserve_types, use_descriptive_masks,
                   filtered_entities, entities_to_mask, masked_text,
                   masked_entities, result>>

\* The merger runs for call c.
CallMerge(c) ==
    /\ pc[c] = "merge"
    /\ filtered_entities' =
          [filtered_entities EXCEPT ![LocalOf(c)] =
              RemoveOverlapping(all_entities[LocalOf(c)])]
    /\ all_entities' =
          [all_entities EXCEPT ![LocalOf(c)] = SortByLength(all_entities[LocalOf(c)])]
    /\ pc' = [pc EXCEPT ![c] = "filter"]
    /\ UNCHANGED serviceVars
    /\ UNCHANGED <<text, mask_char, preserve_types, use_descriptive_masks,
                   entities_to_mask, masked_text, masked_entities, result>>

\* Call c filters the preserved types out, sorts the rest, sets the loop up.
CallFilterPreserved(c) ==
    /\ pc[c] = "filter"
    /\ entities_to_mask' =
          [entities_to_mask EXCEPT ![LocalOf(c)] =
              EntitiesToMask(filtered_entities[LocalOf(c)], preserve_types[c])]
    /\ masked_text' = [masked_text EXCEPT ![LocalOf(c)] = text[c]]
    /\ masked_entities' = [masked_entities EXCEPT ![LocalOf(c)] = <<>>]
    /\ pc' = [pc EXCEPT ![c] = "mask"]
    /\ UNCHANGED serviceVars
    /\ UNCHANGED <<text, mask_char, preserve_types, use_descriptive_masks,
                   all_entities, filtered_entities, result>>

\* One iteration of the loop of call c.
CallMaskEntity(c) ==
    /\ pc[c] = "mask"
    /\ Len(masked_entities[LocalOf(c)]) < Len(entities_to_mask[LocalOf(c)])
    /\ LET entity == entities_to_mask[LocalOf(c)][Len(masked_entities[LocalOf(c)]) + 1]
           mask   == MaskOf(entity, use_descriptive_masks[c], mask_char[c])
       IN  /\ masked_text' =
                 [masked_text EXCEPT ![LocalOf(c)] = Splice(@, entity, mask)]
           /\ masked_entities' =
                 [masked_entities EXCEPT ![LocalOf(c)] =
                     Append(@, MaskedRecord(entity, mask))]
    /\ UNCHANGED serviceVars
    /\ UNCHANGED <<pc, text, mask_char, preserve_types, use_descriptive_masks,
                   all_entities, filtered_entities, entities_to_mask, result>>

\* The loop of call c is over: the risk is assessed and the dict returned.
CallReturn(c) ==
    /\ pc[c] = "mask"
    /\ Len(masked_entities[LocalOf(c)]) = Len(entities_to_mask[LocalOf(c)])
    /\ result' = [result EXCEPT ![c] =
                     <<ResultOf(text[c], masked_text[LocalOf(c)],
                                masked_entities[LocalOf(c)])>>]
    /\ pc' = [pc EXCEPT ![c] = "done"]
    /\ UNCHANGED serviceVars
    /\ UNCHANGED <<text, mask_char, preserve_types, use_descriptive_masks,
                   all_entities, filtered_entities, entities_to_mask,
                   masked_text, masked_entities>>

NextCalls ==
    \E c \in Calls :
        \/ CallExtract(c)
        \/ CallMerge(c)
        \/ CallFilterPreserved(c)
        \/ CallMaskEntity(c)
        \/ CallReturn(c)

SpecCalls == InitCalls /\ [][NextCalls]_vars

\* C16: however the steps of the two calls interleave, a call that has
\* returned has returned the dict that anonymize_text gives, alone, for its
\* arguments and what the producers found in its text, and at no step does
\* the instance hold a name that a call stored on it.
C16_CallsIsolated ==
    /\ \A c \in Calls :
          pc[c] = "done" =>
              result[c][1] = AnonymizeText(text[c], mask_char[c], preserve_types[c],
                                           use_descriptive_masks[c], all_entities[c])
    /\ all_entities["self"] = <<>>
    /\ filtered_entities["self"] = <<>>
    /\ entities_to_mask["self"] = <<>>
    /\ masked_text["self"] = <<>>
    /\ masked_entities["self"] = <<>>

\* C16 witness: call1 has returned while call2 stands in its loop with one
\* entity masked; the two calls found different entities and call1's
\* result holds its own.
C16_Witness ==
    /\ pc["call1"] = "done"
    /\ pc["call2"] = "mask"
    /\ Len(masked_entities["call2"]) = 1
    /\ Len(result["call1"][1].masked_entities) = 1
    /\ result["call1"][1].masked_entities[1].position
          # masked_entities["call2"][1].position
    /\ use_descriptive_masks["call2"]

-----------------------------------------------------------------------------
(* C21 *)

\* C21: the records of the splices made so far have strictly decreasing
\* starts, the entity to be spliced next starts below them all, and every
\* character of the working text at an index below the end of that entity
\* is the character of the original text at that index.
C21_RightmostFirst ==
    (pc = "mask") =>
        /\ \A k \in 1..(Len(masked_entities) - 1) :
              masked_entities[k].position[1] > masked_entities[k + 1].position[1]
        /\ Len(masked_entities) < Len(entities_to_mask) =>
              LET entity == entities_to_mask[Len(masked_entities) + 1]
              IN  /\ \A k \in 1..Len(masked_entities) :
                        entity.start < masked_entities[k].position[1]
                  /\ entity.end <= Len(masked_text)
                  /\ \A p \in 1..entity.end : masked_text[p] = text[p]

\* C21 witness: a descriptive mask has made the working text longer and an
\* entity to its left is still to be spliced.
C21_Witness ==
    /\ pc = "mask"
    /\ Len(masked_entities) = 1
    /\ Len(entities_to_mask) = 2
    /\ Len(masked_text) > Len(text)
    /\ entities_to_mask[2].end <= masked_entities[1].position[1]

-----------------------------------------------------------------------------
(* C27 *)

\* low < medium < high
C27_Level(risk) == IF risk = "low" THEN 0 ELSE IF risk = "medium" THEN 1 ELSE 2

\* a masked entity of which only the type is known
C27_OfType(type) == [type |-> type]

\* the list with x put in before position k
C27_InsertAt(list, k, x) ==
    SubSeq(list, 1, k - 1) \o <<x>> \o SubSeq(list, k, Len(list))

\* the permutations of 1..n
C27_Permutations(n) ==
    {f \in [1..n -> 1..n] : \A i, j \in 1..n : i # j => f[i] # f[j]}

\* C27: adding an entity of any type at any place of the list of masked
\* entities never lowers the risk, and the risk is the same for every
\* reordering of the list and for entities of the same types with any other
\* text, position, detection method and confidence.
C27_RiskMonotone ==
    Returned =>
        LET n    == Len(masked_entities)
            risk == result[1].privacy_risk
        IN  /\ \A type \in RiskTypes : \A k \in 1..(n + 1) :
                  C27_Level(AssessPrivacyRisk(
                      C27_InsertAt(masked_entities, k, C27_OfType(type))))
                    >= C27_Level(risk)
            /\ \A f \in C27_Permutations(n) :
                  /\ AssessPrivacyRisk([k \in 1..n |-> masked_entities[f[k]]]) = risk
                  /\ AssessPrivacyRisk(
                        [k \in 1..n |-> C27_OfType(masked_entities[f[k]].type)]) = risk

\* C27 witness: one MEDIUM and one LOW entity give 'low'; a second MEDIUM
\* entity raises the risk to 'medium' and a HIGH one to 'high'.
C27_Witness ==
    /\ Returned
    /\ Len(masked_entities) = 2
    /\ masked_entities[1].type = Str_PER
    /\ masked_entities[2].type = Str_LOC
    /\ result[1].privacy_risk = "low"
    /\ AssessPrivacyRisk(Append(masked_entities, C27_OfType(Str_PHONE))) = "medium"
    /\ AssessPrivacyRisk(Append(masked_entities, C27_OfType(Str_IBAN))) = "high"

-----------------------------------------------------------------------------
(* One call of anonymize_text in asterisk mode with the default mask       *)
(* character, on the text of distinct letters.                             *)

InitAsterisk ==
    /\ NoService
    /\ pc = "extract"
    /\ text = PlainText
    /\ use_descriptive_masks = FALSE
    /\ mask_char = <<"*">>
    /\ preserve_types \in PreserveLists
    /\ all_entities = <<>>
    /\ filtered_entities = <<>>
    /\ entities_to_mask = <<>>
    /\ masked_text = <<>>
    /\ masked_entities = <<>>
    /\ result = <<>>

NextAsterisk == Extract \/ Merge \/ FilterPreserved \/ MaskEntity \/ Return

SpecAsterisk == InitAsterisk /\ [][NextAsterisk]_vars

-----------------------------------------------------------------------------
(* C28 *)

\* the (start, end) pairs of a list of entities
C28_SpanSet(entities) ==
    {<<entities[k].start, entities[k].end>> : k \in 1..Len(entities)}

\* the list in the order f
C28_Permuted(entities, f) == [k \in 1..Len(entities) |-> entities[f[k]]]

\* the list with the labels of every entity replaced
C28_Relabelled(entities) ==
    [k \in 1..Len(entities) |->
        [entities[k] EXCEPT !.type = Str_MISC,
                            !.detection_method = "regional_pattern",
                            !.confidence = "medium"]]

\* the spans the merger keeps are the same for every order of its argument
\* and for other labels
C28_SpansIndependent ==
    \A f \in C27_Permutations(Len(all_entities)) :
        LET permuted == C28_Permuted(all_entities, f)
        IN  /\ C28_SpanSet(RemoveOverlapping(permuted)) = C28_SpanSet(filtered_entities)
            /\ C28_SpanSet(RemoveOverlapping(C28_Relabelled(permuted)))
                  = C28_SpanSet(filtered_entities)

\* the anonymized text is the same for every order of the combined list
C28_TextIndependent ==
    \A f \in C27_Permutations(Len(all_entities)) :
        AnonymizeText(text, mask_char, preserve_types, use_descriptive_masks,
                      C28_Permuted(all_entities, f)).anonymized_text
            = result[1].anonymized_text

\* C28 as stated: the set of spans the merger keeps is the same for every
\* permutation of its argument and every change of labels, and the
\* asterisk-mode anonymized text is the same for every order of the
\* combined list.
C28_OrderIndependent ==
    Returned => (C28_SpansIndependent /\ C28_TextIndependent)

\* C28 amended: the set of spans the merger keeps is the same for every
\* permutation of its argument and every change of labels; the
\* asterisk-mode anonymized text is the same for every order of the
\* combined list when no type is preserved.
C28_OrderIndependentUnlessPreserved ==
    Returned =>
        /\ C28_SpansIndependent
        /\ (preserve_types = <<>>) => C28_TextIndependent

\* C28 witness: two overlapping entities of equal length from two
\* producers, nothing preserved; in either order the earlier one is kept.
C28_Witness ==
    /\ Returned
    /\ preserve_types = <<>>
    /\ Len(all_entities) = 2
    /\ all_entities[1].type # all_entities[2].type
    /\ TiedPair(all_entities[1], all_entities[2])
    /\ Len(filtered_entities) = 1
    /\ RemoveOverlapping(<<all_entities[2], all_entities[1]>>) = <<all_entities[1]>>

-----------------------------------------------------------------------------
(* C29 *)

\* the first entity of the list that has the span of e
C29_FirstOfSpan(entities, e) ==
    entities[CHOOSE i \in 1..Len(entities) :
                /\ SameSpan(entities[i], e)
                /\ \A h \in 1..(i - 1) : ~SameSpan(entities[h], e)]

\* the call of the merger: every entity of the list returned (primed) is the
\* first entity of its span in the combined list (unprimed)
C29_MergeStep ==
    (pc = "merge" /\ pc' = "filter") =>
        \A k \in 1..Len(filtered_entities') :
            filtered_entities'[k] = C29_FirstOfSpan(all_entities, filtered_entities'[k])

\* in the result the record of a span carries the labels of the entity of
\* that span whose producer comes first, and the descriptive mask its type
C29_EarliestProducerReported ==
    Returned =>
        \A k \in 1..Len(result[1].masked_entities) :
            LET rec   == result[1].masked_entities[k]
                first == C29_FirstOfSpan(all_entities,
                                         [start |-> rec.position[1],
                                          end   |-> rec.position[2]])
            IN  /\ \A i \in 1..Len(all_entities) :
                      (/\ all_entities[i].start = rec.position[1]
                       /\ all_entities[i].end = rec.position[2])
                          => KindOf(rec.type).rank <= KindOf(all_entities[i].type).rank
                /\ rec.type = first.type
                /\ rec.detection_method = first.detection_method
                /\ rec.confidence = first.confidence
                /\ use_descriptive_masks =>
                      rec.mask = MaskedPrefix \o Upper(first.type) \o <<">">>

\* C29: of several entities of one span the merger keeps, if any, the one
\* that comes first in the combined list, and the type, detection method,
\* confidence and descriptive mask reported for the span are those of that
\* entity, the one of the earliest producer.
C29_FirstOfSpanSurvives == [][C29_MergeStep]_vars /\ []C29_EarliestProducerReported

\* C29 witness: the NER producer and a regional pattern report the same
\* span; the record and the descriptive mask are the NER producer's.
C29_Witness ==
    /\ Returned
    /\ use_descriptive_masks
    /\ Len(all_entities) = 2
    /\ SameSpan(all_entities[1], all_entities[2])
    /\ all_entities[1].type = Str_LOC
    /\ all_entities[2].type = Str_TAX_NUMBER
    /\ Len(result[1].masked_entities) = 1
    /\ result[1].masked_entities[1].detection_method = "classla_ner"
    /\ result[1].masked_entities[1].mask
          = <<"<", "M", "A", "S", "K", "E", "D", "_", "L", "O", "C", ">">>

-----------------------------------------------------------------------------
(* C30 *)

\* C30 as stated: with nothing preserved, every position of the text inside
\* the span of an entity the producers gave, kept by the merger or not,
\* holds the mask character in the asterisk-mode anonymized text.
C30_EveryFlaggedCharacterMasked ==
    (Returned /\ preserve_types = <<>>) =>
        \A i \in 1..Len(all_entities) : \A p \in 1..Len(text) :
            Inside(p, all_entities[i]) => result[1].anonymized_text[p] = mask_char[1]

\* what the code does with two overlapping entities of which neither
\* contains the other: the merger drops one and the characters of the
\* dropped one outside the kept one stay in the anonymized text
C30_FlaggedCharacterReadable ==
    /\ Returned
    /\ preserve_types = <<>>
    /\ Len(all_entities) = 2
    /\ Len(result[1].masked_entities) = 1
    /\ \E p \in 1..Len(text) :
          /\ Inside(p, all_entities[2])
          /\ ~Inside(p, all_entities[1])
          /\ result[1].anonymized_text[p] = text[p]

-----------------------------------------------------------------------------
(* The service: docker_api.py and startup.py.                              *)
(*                                                                         *)
(* A JSON value is a record [kind, chars, items]: a string with its        *)
(* characters, a number, or a list with its items.  The body of a request  *)
(* is what request.get_json() does with it: it raises, or returns null or  *)
(* an object with the keys given.                                          *)

\* Longest list of texts of a batch request.
MaxBatch == 2

JsonString(chars) == [kind |-> "string", chars |-> chars, items |-> <<>>]
JsonNumber == [kind |-> "number", chars |-> <<>>, items |-> <<>>]
JsonList(items) == [kind |-> "list", chars |-> <<>>, items |-> items]

\* s.strip(): s without the blanks at its two ends
RECURSIVE Strip(_)
Strip(s) ==
    IF s = <<>> THEN s
    ELSE IF Head(s) = " " THEN Strip(Tail(s))
    ELSE IF s[Len(s)] = " " THEN Strip(SubSeq(s, 1, Len(s) - 1))
    ELSE s

\* not isinstance(text, str) or len(text.strip()) == 0
InvalidText(value) == value.kind # "string" \/ Len(Strip(value.chars)) = 0

\* not isinstance(texts, list) or len(texts) == 0
InvalidTexts(value) == value.kind # "list" \/ Len(value.items) = 0

\* not data or 'text' not in data
MissingField(data, field) ==
    data.json = "null" \/ data.keys = {} \/ field \notin data.keys

Body(json, keys, text_value, texts_value, descriptive) ==
    [json |-> json, keys |-> keys, text |-> text_value, texts |-> texts_value,
     use_descriptive_masks |-> descriptive]

\* the texts a client sends: a text of letters, a blank one, a number
ClientTexts == {JsonString(PlainText), JsonString(<<" ", " ">>), JsonNumber}

\* bodies that get_json() cannot read, that are null or lack the field
UnreadableBodies ==
    { Body("raises", {}, JsonNumber, JsonNumber, FALSE),
      Body("null", {}, JsonNumber, JsonNumber, FALSE),
      Body("object", {}, JsonNumber, JsonNumber, FALSE),
      Body("object", {"language"}, JsonNumber, JsonNumber, FALSE) }

\* the bodies of /anonymize requests
AnonymizeBodies ==
    UnreadableBodies
      \cup {Body("object", {"text"}, JsonString(<<>>), JsonNumber, FALSE)}
      \cup {Body("object", {"text", "use_descriptive_masks"}, value, JsonNumber, d) :
               value \in ClientTexts, d \in BOOLEAN}

\* the bodies of /anonymize/batch requests
BatchBodies ==
    UnreadableBodies
      \cup {Body("object", {"texts"}, JsonNumber, JsonString(PlainText), FALSE)}
      \cup UNION {{Body("object", {"texts"}, JsonNumber, JsonList(items), FALSE) :
                      items \in [1..n -> ClientTexts]} : n \in 0..MaxBatch}

\* what the producers of the instance find in a text of the service:
\* nothing, its first character, or all of it
ServiceFindings ==
    {<<>>} \cup {<<MakeEntity(PlainText, <<0, k>>, KindOf(Str_EMAIL))>> : k \in {1, TextLen}}

\* how a call of anonymizer.anonymize_text ends: it raises, or the producers
\* found these entities
CallOutcomes ==
    {[raised |-> TRUE, entities |-> <<>>]}
      \cup {[raised |-> FALSE, entities |-> found] : found \in ServiceFindings}


\* the parameters of ComprehensiveGDPRAnonymizer.__init__ besides self
InitParameters == {"language", "use_gpu"}

\* the keyword arguments of the two constructor calls
DockerApiArguments == {"language", "use_gpu"}
StartupArguments == {"language", "use_gpu", "preload_models"}

\* the constructor returns an instance: its call binds to the parameters
\* and _setup_classla loads the models; else it raises
ConstructorSucceeds(arguments) == arguments \subseteq InitParameters /\ classla_ok

Requests == {"r1", "r2"}

Endpoints == {"/anonymize", "/anonymize/batch", "/health"}

\* a request as it arrives: instance is the handler's local anonymizer (0 for
\* unbound, as for the global None), found what each anonymize_text call of
\* the handler met, results the list of the batch loop, response <<>> until
\* the handler returns
NewRequest(endpoint, data) ==
    [endpoint |-> endpoint, data |-> data, pc |-> "received", instance |-> 0,
     found |-> <<>>, results |-> <<>>, status |-> 0, response |-> <<>>]

ArrivingRequests ==
    {NewRequest("/anonymize", data) : data \in AnonymizeBodies}
      \cup {NewRequest("/anonymize/batch", data) : data \in BatchBodies}
      \cup {NewRequest("/health", Body("null", {}, JsonNumber, JsonNumber, FALSE))}

engineVars == <<pc, text, mask_char, preserve_types, use_descriptive_masks,
                all_entities, filtered_entities, entities_to_mask, masked_text,
                masked_entities, result>>

\* the variables of the single call are not used by the service
EngineIdle ==
    /\ pc = "none"
    /\ text = <<>>
    /\ mask_char = <<"*">>
    /\ preserve_types = <<>>
    /\ use_descriptive_masks = FALSE
    /\ all_entities = <<>>
    /\ filtered_entities = <<>>
    /\ entities_to_mask = <<>>
    /\ masked_text = <<>>
    /\ masked_entities = <<>>
    /\ result = <<>>

\* The process is started with one of the two scripts; the global is None.
InitService ==
    /\ EngineIdle
    /\ entry \in {"startup", "docker_api"}
    /\ main_pc = "boot"
    /\ anonymizer = 0
    /\ constructed = 0
    /\ classla_ok \in BOOLEAN
    /\ req \in [Requests -> ArrivingRequests]

\* python docker_api.py: the server starts, the global still None
DockerApiMain ==
    /\ entry = "docker_api"
    /\ main_pc = "boot"
    /\ main_pc' = "serving"
    /\ UNCHANGED <<entry, anonymizer, constructed, classla_ok, req>>
    /\ UNCHANGED engineVars

\* python startup.py: main() pre-initializes, stores the instance in
\* docker_api.anonymizer and runs the server; an exception of the
\* constructor or of the test call ends the process
StartupMain ==
    /\ entry = "startup"
    /\ main_pc = "boot"
    /\ \E outcome \in CallOutcomes :
          IF ConstructorSucceeds(StartupArguments) /\ ~outcome.raised
          THEN /\ constructed' = constructed + 1
               /\ anonymizer' = constructed + 1
               /\ main_pc' = "serving"
          ELSE /\ main_pc' = "crashed"
               /\ UNCHANGED <<anonymizer, constructed>>
    /\ UNCHANGED <<entry, classla_ok, req>>
    /\ UNCHANGED engineVars

\* The models become loadable (the download that failed succeeds).
Recover ==
    /\ main_pc = "serving"
    /\ ~classla_ok
    /\ classla_ok' = TRUE
    /\ UNCHANGED <<entry, main_pc, anonymizer, constructed, req>>
    /\ UNCHANGED engineVars

\* the handler of request r returns
Respond(r, status, body) ==
    req' = [req EXCEPT ![r].pc = "responded", ![r].status = status,
                       ![r].response = <<body>>]

\* GET /health
HealthCheck(r) ==
    /\ main_pc = "serving"
    /\ req[r].endpoint = "/health"
    /\ req[r].pc = "received"
    /\ Respond(r, 200,
               [status |-> "healthy",
                anonymizer_status |->
                   IF anonymizer # 0 THEN "initialized" ELSE "not_initialized"])
    /\ UNCHANGED <<entry, main_pc, anonymizer, constructed, classla_ok>>
    /\ UNCHANGED engineVars

\* POST /anonymize up to the call of initialize_anonymizer
AnonymizeValidate(r) ==
    /\ main_pc = "serving"
    /\ req[r].endpoint = "/anonymize"
    /\ req[r].pc = "received"
    /\ LET data == req[r].data
       IN  IF data.json = "raises"
           THEN Respond(r, 500, [error |-> "Internal server error"])
           ELSE IF MissingField(data, "text")
           THEN Respond(r, 400, [error |-> "Missing required field: text"])
           ELSE IF InvalidText(data.text)
           THEN Respond(r, 400, [error |-> "Text must be a non-empty string"])
           ELSE req' = [req EXCEPT ![r].pc = "initialize"]
    /\ UNCHANGED <<entry, main_pc, anonymizer, constructed, classla_ok>>
    /\ UNCHANGED engineVars

\* POST /anonymize/batch up to the call of initialize_anonymizer
BatchValidate(r) ==
    /\ main_pc = "serving"
    /\ req[r].endpoint = "/anonymize/batch"
    /\ req[r].pc = "received"
    /\ LET data == req[r].data
       IN  IF data.json = "raises"
           THEN Respond(r, 500, [error |-> "Internal server error"])
           ELSE IF MissingField(data, "texts")
           THEN Respond(r, 400, [error |-> "Missing required field: texts"])
           ELSE IF InvalidTexts(data.texts)
           THEN Respond(r, 400, [error |-> "Texts must be a non-empty list"])
           ELSE req' = [req EXCEPT ![r].pc = "initialize"]
    /\ UNCHANGED <<entry, main_pc, anonymizer, constructed, classla_ok>>
    /\ UNCHANGED engineVars

\* initialize_anonymizer: if anonymizer is None
InitializeCheck(r) ==
    /\ req[r].pc = "initialize"
    /\ req' = [req EXCEPT ![r].pc = IF anonymizer = 0 THEN "construct" ELSE "return"]
    /\ UNCHANGED <<entry, main_pc, anonymizer, constructed, classla_ok>>
    /\ UNCHANGED engineVars

\* (variant) a failed construction marks the global as set, so that nobody
\* tries again
Construct_KeepsFailedInstance(r) ==
    /\ req[r].pc = "construct"
    /\ IF ConstructorSucceeds(DockerApiArguments)
       THEN /\ constructed' = constructed + 1
            /\ anonymizer' = constructed + 1
            /\ req' = [req EXCEPT ![r].pc = "return"]
       ELSE /\ IF req[r].endpoint = "/anonymize"
               THEN Respond(r, 503,
                       [error |-> "Service temporarily unavailable - initializing models"])
               ELSE Respond(r, 500, [error |-> "Internal server error"])
            /\ anonymizer' = -1
            /\ UNCHANGED constructed
    /\ UNCHANGED <<entry, main_pc, classla_ok>>
    /\ UNCHANGED engineVars

\* initialize_anonymizer: anonymizer = ComprehensiveGDPRAnonymizer(...); an
\* exception is raised again and answered 503 by /anonymize, 500 by the batch
Construct(r) ==
    /\ req[r].pc = "construct"
    /\ IF ConstructorSucceeds(DockerApiArguments)
       THEN /\ constructed' = constructed + 1
            /\ anonymizer' = constructed + 1
            /\ req' = [req EXCEPT ![r].pc = "return"]
       ELSE /\ IF req[r].endpoint = "/anonymize"
               THEN Respond(r, 503,
                       [error |-> "Service temporarily unavailable - initializing models"])
               ELSE Respond(r, 500, [error |-> "Internal server error"])
            /\ UNCHANGED <<anonymizer, constructed>>
    /\ UNCHANGED <<entry, main_pc, classla_ok>>
    /\ UNCHANGED engineVars

\* initialize_anonymizer: return anonymizer, bound to the handler's local
InitializeReturn(r) ==
    /\ req[r].pc = "return"
    /\ req' = [req EXCEPT ![r].pc = "process", ![r].instance = anonymizer]
    /\ UNCHANGED <<entry, main_pc, anonymizer, constructed, classla_ok>>
    /\ UNCHANGED engineVars


\* the dict of one masked entity in the response of /anonymize
ResponseEntity(entity) ==
    [original         |-> entity.original,
     type             |-> entity.type,
     mask             |-> entity.mask,
     detection_method |-> entity.detection_method,
     confidence       |-> entity.confidence]

\* the response of /anonymize for the dict anonymize_text returned: the
\* first 10 masked entities, then a note when there are more
AnonymizeResponse(res) ==
    LET n     == Len(res.masked_entities)
        shown == IF n > 10 THEN 10 ELSE n
    IN  [original_text         |-> res.original_text,
         anonymized_text       |-> res.anonymized_text,
         total_entities_masked |-> res.total_entities_masked,
         privacy_risk          |-> res.privacy_risk,
         detection_methods     |-> res.detection_methods,
         masked_entities       |->
            [k \in 1..shown |-> ResponseEntity(res.masked_entities[k])],
         more_entities_noted   |-> n > 10]

\* the call anonymizer.anonymize_text(text=..., use_descriptive_masks=...,
\* preserve_types=...) of the handlers, mask_char left at its default; the
\* bodies of the model carry no 'preserve_types', so data.get passes []
HandlerCall(value, descriptive, entities) ==
    AnonymizeText(value.chars, <<"*">>, <<>>, descriptive, entities)

\* POST /anonymize: the call of anonymize_text and the response
AnonymizeProcess(r) ==
    /\ req[r].endpoint = "/anonymize"
    /\ req[r].pc = "process"
    /\ \E outcome \in CallOutcomes :
          LET data == req[r].data
          IN  req' = [req EXCEPT
                 ![r].pc = "responded",
                 ![r].found = <<outcome>>,
                 ![r].status = IF outcome.raised THEN 500 ELSE 200,
                 ![r].response =
                    IF outcome.raised
                    THEN <<[error |-> "Processing error"]>>
                    ELSE <<AnonymizeResponse(
                              HandlerCall(data.text, data.use_descriptive_masks,
                                          outcome.entities))>>]
    /\ UNCHANGED <<entry, main_pc, anonymizer, constructed, classla_ok>>
    /\ UNCHANGED engineVars

\* (variant) the entries are numbered from 1
BatchEntry_CountsFromOne(index, value, descriptive, outcome) ==
    IF InvalidText(value)
    THEN [index |-> index + 1, error |-> "Text must be a non-empty string"]
    ELSE IF outcome.raised
    THEN [index |-> index + 1, error |-> "exception"]
    ELSE LET res == HandlerCall(value, descriptive, outcome.entities)
         IN  [index                 |-> index + 1,
              original_text         |-> res.original_text,
              anonymized_text       |-> res.anonymized_text,
              total_entities_masked |-> res.total_entities_masked,
              privacy_risk          |-> res.privacy_risk]

\* the entry of the batch results for text number index (from 0)
BatchEntry(index, value, descriptive, outcome) ==
    IF InvalidText(value)
    THEN [index |-> index, error |-> "Text must be a non-empty string"]
    ELSE IF outcome.raised
    THEN [index |-> index, error |-> "exception"]
    ELSE LET res == HandlerCall(value, descriptive, outcome.entities)
         IN  [index                 |-> index,
              original_text         |-> res.original_text,
              anonymized_text       |-> res.anonymized_text,
              total_entities_masked |-> res.total_entities_masked,
              privacy_risk          |-> res.privacy_risk]

\* POST /anonymize/batch: one pass of the loop over texts
BatchStep(r) ==
    /\ req[r].endpoint = "/anonymize/batch"
    /\ req[r].pc = "process"
    /\ Len(req[r].results) < Len(req[r].data.texts.items)
    /\ LET data  == req[r].data
           i     == Len(req[r].results)
           value == data.texts.items[i + 1]
       IN  \E outcome \in CallOutcomes :
              /\ InvalidText(value) => outcome = [raised |-> FALSE, entities |-> <<>>]
              /\ req' = [req EXCEPT
                    ![r].found = Append(@, outcome),
                    ![r].results =
                       Append(@, BatchEntry(i, value, data.use_descriptive_masks,
                                            outcome))]
    /\ UNCHANGED <<entry, main_pc, anonymizer, constructed, classla_ok>>
    /\ UNCHANGED engineVars

\* POST /anonymize/batch: the loop is over, the response
BatchRespond(r) ==
    /\ req[r].endpoint = "/anonymize/batch"
    /\ req[r].pc = "process"
    /\ Len(req[r].results) = Len(req[r].data.texts.items)
    /\ Respond(r, 200, [results    |-> req[r].results,
                        batch_size |-> Len(req[r].data.texts.items)])
    /\ UNCHANGED <<entry, main_pc, anonymizer, constructed, classla_ok>>
    /\ UNCHANGED engineVars

NextService ==
    \/ DockerApiMain
    \/ StartupMain
    \/ Recover
    \/ \E r \in Requests :
          \/ HealthCheck(r)
          \/ AnonymizeValidate(r)
          \/ BatchValidate(r)
          \/ InitializeCheck(r)
          \/ Construct(r)
          \/ InitializeReturn(r)
          \/ AnonymizeProcess(r)
          \/ BatchStep(r)
          \/ BatchRespond(r)

SpecService == InitService /\ [][NextService]_vars


-----------------------------------------------------------------------------
(* Properties of the service (SpecService).                                *)

\* the handler of r has returned
Responded(r) == req[r].pc = "responded"

\* C22 as stated: whatever the requests that arrive while the global is
\* None, the constructor completes at most once in the process and every
\* request that gets an instance gets the same one.
C22_InitializedOnce ==
    /\ constructed <= 1
    /\ \A r, q \in Requests :
          (req[r].instance # 0 /\ req[q].instance # 0)
              => req[r].instance = req[q].instance

\* what the code does with two requests that both find the global None:
\* both run the constructor, and each is served by the instance that the
\* global held when its initialize_anonymizer returned
C22_ConstructedTwice ==
    /\ entry = "docker_api"
    /\ constructed = 2
    /\ req["r1"].endpoint = "/anonymize"
    /\ req["r2"].endpoint = "/anonymize/batch"
    /\ Responded("r1") /\ req["r1"].status = 200
    /\ Responded("r2") /\ req["r2"].status = 200
    /\ req["r1"].instance # req["r2"].instance


\* the handler of r takes a step
C23_Steps(r) == req'[r] # req[r]

\* C23, the steps: a constructor call that fails leaves the global None and
\* builds nothing, and the /anonymize request that made it is answered 503
\* with no result; /health reports 'not_initialized' exactly while the global
\* is None; a request that reaches initialize_anonymizer while the global is
\* None calls the constructor again, whatever failed before, and a
\* constructor call that succeeds sets the global.
C23_Step ==
    \A r \in Requests :
       C23_Steps(r) =>
          /\ (req[r].pc = "construct" /\ ~ConstructorSucceeds(DockerApiArguments))
                => /\ anonymizer = 0 /\ anonymizer' = 0
                   /\ constructed' = constructed
                   /\ req'[r].pc = "responded"
                   /\ req'[r].instance = 0 /\ req'[r].found = <<>>
                   /\ req[r].endpoint = "/anonymize"
                         => /\ req'[r].status = 503
                            /\ DOMAIN req'[r].response[1] = {"error"}
          /\ req[r].endpoint = "/health"
                => /\ req'[r].status = 200
                   /\ req'[r].response[1].anonymizer_status
                         = IF anonymizer = 0 THEN "not_initialized" ELSE "initialized"
                   /\ anonymizer' = anonymizer
          /\ (req[r].pc = "initialize" /\ anonymizer = 0)
                => req'[r].pc = "construct"
          /\ (req[r].pc = "construct" /\ ConstructorSucceeds(DockerApiArguments))
                => anonymizer' # 0 /\ req'[r].pc = "return"

\* C23, the states: a request that was given an instance was given a
\* constructed one, and an /anonymize request that has one is answered 200
\* with its result unless anonymize_text itself raised; 503 is answered only
\* to a request that got no instance.
C23_Served ==
    \A r \in Requests :
       /\ req[r].instance \in 0..constructed
       /\ (Responded(r) /\ req[r].endpoint = "/anonymize" /\ req[r].instance # 0)
             => /\ anonymizer # 0
                /\ req[r].status = IF req[r].found[1].raised THEN 500 ELSE 200
                /\ req[r].status = 200
                      => req[r].response[1].original_text = req[r].data.text.chars
       /\ req[r].status = 503 => req[r].instance = 0 /\ req[r].endpoint = "/anonymize"

\* C23: a failed construction leaves the global None, is answered 503 by
\* /anonymize and reported 'not_initialized' by /health, and the next request
\* constructs again and is served once the constructor succeeds.
C23_FailedConstructionRetried == [][C23_Step]_vars /\ []C23_Served

\* the first request was answered 503 while the models could not be loaded,
\* the second arrived after they could: it constructed the instance and got
\* its text anonymized
C23_Witness ==
    /\ req["r1"].endpoint = "/anonymize" /\ Responded("r1")
    /\ req["r1"].status = 503
    /\ req["r2"].endpoint = "/anonymize" /\ Responded("r2")
    /\ req["r2"].status = 200
    /\ req["r2"].instance = 1 /\ anonymizer = 1 /\ constructed = 1
    /\ req["r2"].response[1].anonymized_text # req["r2"].response[1].original_text


\* the body of request r is one the /anonymize handler must refuse: no JSON
\* body could be read, or it is null or empty, or it has no 'text', or its
\* 'text' is not a string or is blank
C24_Refused(r) ==
    \/ req[r].data.json = "raises"
    \/ MissingField(req[r].data, "text")
    \/ InvalidText(req[r].data.text)

\* C24 as stated: an /anonymize request with such a body is answered 400
\* and leaves the global as it was: its handler never reaches
\* initialize_anonymizer and never calls anonymize_text.
C24_RefusedWith400 ==
    \A r \in Requests :
       (req[r].endpoint = "/anonymize" /\ C24_Refused(r))
          => /\ req[r].pc \in {"received", "responded"}
             /\ req[r].instance = 0 /\ req[r].found = <<>>
             /\ Responded(r) => req[r].status = 400

\* what the code does when request.get_json() raises on the missing body:
\* the outer handler answers 500 'Internal server error'
C24_MissingBodyAnswered500 ==
    \E r \in Requests :
       /\ req[r].endpoint = "/anonymize"
       /\ req[r].data.json = "raises"
       /\ Responded(r)
       /\ req[r].status = 500
       /\ req[r].response[1].error = "Internal server error"
       /\ req[r].instance = 0 /\ req[r].found = <<>>
       /\ anonymizer = 0 /\ constructed = 0


\* entry k of the results of batch request r is the one its text alone
\* decides: an error entry at index k-1 for a text that is not a non-empty
\* string or whose call raised, else the fields of what one anonymize_text
\* call on that text returns for what the producers found in it
C25_EntryOfText(r, k) ==
    LET value  == req[r].data.texts.items[k]
        item   == req[r].results[k]
        single == AnonymizeText(value.chars, <<"*">>, <<>>,
                                req[r].data.use_descriptive_masks,
                                req[r].found[k].entities)
    IN  /\ item.index = k - 1
        /\ IF InvalidText(value)
           THEN item = [index |-> k - 1, error |-> "Text must be a non-empty string"]
           ELSE IF req[r].found[k].raised
           THEN DOMAIN item = {"index", "error"}
           ELSE /\ DOMAIN item = {"index", "original_text", "anonymized_text",
                                  "total_entities_masked", "privacy_risk"}
                /\ item.original_text = single.original_text
                /\ item.anonymized_text = single.anonymized_text
                /\ item.total_entities_masked = single.total_entities_masked
                /\ item.privacy_risk = single.privacy_risk

\* C25: a batch request with a non-empty list of n texts that got an
\* instance is answered 200 with batch_size n and n results, indexed 0..n-1
\* in input order; an invalid text or a call that raises gives an error
\* entry at its index and the other entries are what a single call on their
\* text returns.
C25_BatchIndependent ==
    \A r \in Requests :
       (req[r].endpoint = "/anonymize/batch" /\ req[r].instance # 0)
          => LET n == Len(req[r].data.texts.items)
             IN  /\ n > 0
                 /\ Len(req[r].results) <= n
                 /\ Len(req[r].found) = Len(req[r].results)
                 /\ \A k \in 1..Len(req[r].results) : C25_EntryOfText(r, k)
                 /\ Responded(r)
                       => /\ req[r].status = 200
                          /\ req[r].response[1].batch_size = n
                          /\ req[r].response[1].results = req[r].results
                          /\ Len(req[r].response[1].results) = n

\* a batch of two texts: the call on the first raised, the second is not a
\* string, and a second batch of two texts whose second text was anonymized
\* after the first one's call raised
C25_Witness ==
    /\ req["r1"].endpoint = "/anonymize/batch" /\ Responded("r1")
    /\ req["r2"].endpoint = "/anonymize/batch" /\ Responded("r2")
    /\ req["r1"].status = 200 /\ req["r2"].status = 200
    /\ Len(req["r1"].results) = MaxBatch /\ Len(req["r2"].results) = MaxBatch
    /\ req["r1"].found[1].raised
    /\ req["r1"].data.texts.items[MaxBatch] = JsonNumber
    /\ req["r2"].found[1].raised
    /\ "anonymized_text" \in DOMAIN req["r2"].results[MaxBatch]
    /\ req["r2"].results[MaxBatch].anonymized_text # PlainText
    /\ req["r2"].results[MaxBatch].total_entities_masked = 1


\* C26 as stated: started through startup.main with models that load, the
\* process leaves its boot only into serving, with the pre-initialized
\* instance stored in the global, and no request handled afterwards
\* constructs an anonymizer.
C26_PreInitializedBeforeServing ==
    (entry = "startup" /\ classla_ok /\ main_pc # "boot")
       => /\ main_pc = "serving"
          /\ anonymizer = 1 /\ constructed = 1
          /\ \A r \in Requests : req[r].pc # "construct"

\* what the code does: the constructor call of pre_initialize_anonymizer
\* passes preload_models, which __init__ does not take, so it raises
\* TypeError although the models load; main ends there, nothing is stored
\* in the global, the server is never started and no request is handled
C26_StartupCrashed ==
    /\ entry = "startup"
    /\ classla_ok
    /\ main_pc = "crashed"
    /\ anonymizer = 0 /\ constructed = 0
    /\ \A r \in Requests : req[r].pc = "received"

====
